---- MODULE Spec2Model ----
(***************************************************************************)
(* Model of the Hypernative monitor ingestion pipeline                     *)
(* (src/src/performance_optimizer.py, with the dashboard controls of       *)
(* src/main.py that act on it).                                            *)
(*                                                                         *)
(* Strings that the code splits are kept as their token sequences:         *)
(* a name is the value of name.split(" "), which is never empty (the empty *)
(* string splits to <<"">>).  Python's None and a raised exception are     *)
(* tagged records, so that "returns None", "returns a tuple" and "raises"  *)
(* stay three different outcomes.                                          *)
(***************************************************************************)
EXTENDS Integers, Sequences, FiniteSets, TLC

(***************************************************************************)
(* Bounds of the model and constants of the program                        *)
(***************************************************************************)
\* the clock runs from 0 to MaxTime, in steps of ClockStep seconds
MaxTime == 600
ClockStep == 150
\* the suite list of a response holds at most MaxSuits suites
MaxSuits == 2
\* calls of get_hn_monitors_optimized in one behaviour
MaxCalls == 3

cache_duration == 300
batch_size == 5
suit_workers == 3

(***************************************************************************)
(* Values                                                                  *)
(***************************************************************************)
\* the empty string, as split(" ") gives it
EmptyStr == <<"">>
\* a field the payload does not hold
Absent == <<>>

NoneResult == [tag |-> "None"]
Raised == [tag |-> "raise"]
Ok(v) == [tag |-> "ok", val |-> v]

\* " ".join(tokens), as the token sequence of the joined string
Join(tokens) == IF tokens = <<>> THEN EmptyStr ELSE tokens

\* parts[i:] of Python (i counted from 0)
From(parts, i) == SubSeq(parts, i + 1, Len(parts))

\* str.upper() on the tags the model's names use
Upper(tok) ==
    CASE tok \in {"[vault]", "[Vault]"} -> "[VAULT]"
      [] tok = "[token]" -> "[TOKEN]"
      [] tok = "[pool]" -> "[POOL]"
      [] tok = "[bridge]" -> "[BRIDGE]"
      [] tok = "[eoa]" -> "[EOA]"
      [] tok = "[other]" -> "[OTHER]"
      [] tok = "[foo]" -> "[FOO]"
      [] OTHER -> tok

\* no decoder has been called
NoDecode == [state |-> "none", decoder |-> "none", name |-> <<>>, result |-> NoneResult]

(***************************************************************************)
(* The channel directory (src.channels.channels)                           *)
(***************************************************************************)
channels ==
    << [name |-> "chan-a", dao |-> "X"],
       [name |-> "chan-b", dao |-> "None"],
       [name |-> "chan-c", dao |-> "Y"],
       \* an entry without an owner
       [name |-> "chan-d", dao |-> ""] >>

\* get_client_dao with channel_dao_map.get(channel): no default, so that a
\* channel the map does not hold gives null
get_client_dao_no_default(channel) ==
    LET hits == {i \in 1..Len(channels) :
                   /\ channels[i].dao # "" /\ channels[i].dao # "None"
                   /\ channels[i].name = channel}
    IN IF channel # "None" /\ hits # {}
         THEN channels[CHOOSE i \in hits : \A j \in hits : j <= i].dao
         ELSE IF channel = "None" THEN "None" ELSE ""

\* PerformanceOptimizer.get_client_dao
get_client_dao(channel) ==
    LET owned == {i \in 1..Len(channels) :
                    channels[i].dao # "" /\ channels[i].dao # "None"}
        \* a dict comprehension keeps the last entry of a repeated name
        hits == {i \in owned : channels[i].name = channel}
    IN IF channel # "None" /\ hits # {}
         THEN channels[CHOOSE i \in hits : \A j \in hits : j <= i].dao
         ELSE "None"

(***************************************************************************)
(* Name grammar                                                            *)
(***************************************************************************)
SuitTags == {"[TOKEN]", "[POOL]", "[VAULT]", "[BRIDGE]"}

\* parse_suit_name without its check of the tag
parse_suit_name_any_tag(parts) ==
    IF Len(parts) < 4 THEN Raised
    ELSE Ok([contract_type |-> parts[1], blockchain |-> parts[2],
             protocol |-> parts[3], address |-> parts[4], symbol |-> "",
             label |-> Join(From(parts, 4))])

\* PerformanceOptimizer.parse_suit_name, on parts = name.split(" ")
parse_suit_name(parts) ==
    LET contract_type == parts[1] IN
    IF contract_type \notin SuitTags THEN NoneResult
    ELSE IF Len(parts) < 2 THEN Raised
    ELSE IF contract_type = "[TOKEN]"
      THEN IF Len(parts) < 4 THEN Raised
           ELSE Ok([contract_type |-> contract_type, blockchain |-> parts[2],
                    protocol |-> "", address |-> parts[3], symbol |-> parts[4],
                    label |-> Join(From(parts, 4))])
      ELSE IF Len(parts) < 4 THEN Raised
           ELSE Ok([contract_type |-> contract_type, blockchain |-> parts[2],
                    protocol |-> parts[3], address |-> parts[4], symbol |-> "",
                    label |-> Join(From(parts, 4))])

Mon(risk_id, contract_type, blockchain, protocol, address, symbol, label) ==
    Ok([risk_id |-> risk_id, contract_type |-> contract_type,
        blockchain |-> blockchain, protocol |-> protocol, address |-> address,
        symbol |-> symbol, label |-> label])

\* PerformanceOptimizer.parse_watchlist_name
parse_watchlist_name(parts) ==
    IF Len(parts) < 2 THEN Raised
    ELSE LET risk_id == parts[1]
             contract_type == parts[2]
             n == Len(parts)
         IN
         CASE contract_type = "[PROTOCOL]" ->
                IF n < 4 THEN Raised
                ELSE Mon(risk_id, contract_type, parts[3], parts[4], "", "", <<parts[4]>>)
           [] contract_type = "[TOKEN]" ->
                IF n < 4 THEN Raised
                ELSE Mon(risk_id, contract_type, parts[3], "", parts[4], "",
                         Join(From(parts, 4)))
           [] contract_type = "[CONSENSUSLAYER]" ->
                IF n < 3 THEN Raised
                ELSE Mon(risk_id, contract_type, parts[3], "", "", "",
                         Join(From(parts, 3)))
           [] contract_type \in {"[MULTISIG]", "[POOL]"} ->
                IF n < 5 THEN Raised
                ELSE Mon(risk_id, contract_type, parts[3], parts[4], parts[5], "",
                         Join(From(parts, 5)))
           [] contract_type = "[L2]" ->
                Mon(risk_id, contract_type, "", "", "", "", Join(From(parts, 2)))
           [] OTHER -> NoneResult

AgentTags == {"[VAULT]", "[EOA]", "[MULTISIG]", "[POOL]", "[OTHER]", "[ORACLE]",
              "[BRIDGE]", "[TIMELOCK]"}

\* parts[i] if len(parts) > i else ""
Slot(parts, i) == IF Len(parts) > i THEN parts[i + 1] ELSE ""
\* " ".join(parts[i:]) if len(parts) > i else ""
Rest(parts, i) == IF Len(parts) > i THEN Join(From(parts, i)) ELSE EmptyStr

\* PerformanceOptimizer.parse_custom_agent_name
parse_custom_agent_name(parts) ==
    IF Len(parts) < 2
      THEN IF Len(parts) = 1
             THEN Mon(parts[1], "[OTHER]", "", "", "", "", EmptyStr)
             ELSE NoneResult
    ELSE LET risk_id == parts[1]
             contract_type == parts[2]
             contract_type_upper == Upper(contract_type)
         IN
         IF contract_type_upper \in AgentTags
           THEN Mon(risk_id, contract_type, Slot(parts, 2), Slot(parts, 3),
                    Slot(parts, 4), Slot(parts, 5), Rest(parts, 6))
         ELSE IF contract_type_upper = "[TOKEN]"
           THEN Mon(risk_id, contract_type, Slot(parts, 2), "", Slot(parts, 3),
                    Slot(parts, 4), Rest(parts, 5))
         ELSE IF Len(parts) >= 4
           THEN Mon(risk_id, "[OTHER]", Slot(parts, 1), Slot(parts, 2),
                    Slot(parts, 3), Slot(parts, 4), Rest(parts, 5))
         ELSE NoneResult

\* parse_custom_agent_name of src/src/getHN.py, the sequential pipeline: the
\* tag is matched as written, the label is the one token parts[6], and a
\* name of one token raises at parts[1]
getHN_parse_custom_agent_name(parts) ==
    IF Len(parts) < 2 THEN Raised
    ELSE LET risk_id == parts[1]
             contract_type == parts[2]
         IN
         IF contract_type \in AgentTags
           THEN Mon(risk_id, contract_type, Slot(parts, 2), Slot(parts, 3),
                    Slot(parts, 4), Slot(parts, 5),
                    IF Len(parts) > 6 THEN <<parts[7]>> ELSE EmptyStr)
         ELSE IF contract_type = "[TOKEN]"
           THEN Mon(risk_id, contract_type, Slot(parts, 2), "", Slot(parts, 3),
                    Slot(parts, 4),
                    IF Len(parts) > 5 THEN <<parts[6]>> ELSE EmptyStr)
         ELSE NoneResult

(***************************************************************************)
(* Channel extraction                                                      *)
(***************************************************************************)
RECURSIVE Flatten(_)
Flatten(seqs) ==
    IF seqs = <<>> THEN <<>> ELSE Head(seqs) \o Flatten(Tail(seqs))

RECURSIVE Dedupe(_, _)
\* list(dict.fromkeys(out)): the first occurrence of each name, in order
Dedupe(out, seen) ==
    IF out = <<>> THEN <<>>
    ELSE IF Head(out) \in seen THEN Dedupe(Tail(out), seen)
    ELSE <<Head(out)>> \o Dedupe(Tail(out), seen \cup {Head(out)})

RECURSIVE DedupeKeepLast(_)
\* each name at its last place only
DedupeKeepLast(out) ==
    IF out = <<>> THEN <<>>
    ELSE IF \E i \in 2..Len(out) : out[i] = Head(out)
      THEN DedupeKeepLast(Tail(out))
    ELSE <<Head(out)>> \o DedupeKeepLast(Tail(out))

\* extract_channels if it kept the last occurrence of a repeated name
extract_channels_keep_last(alert_policies) ==
    LET policies == IF alert_policies.present THEN alert_policies.policies ELSE <<>>
    IN DedupeKeepLast(SelectSeq(Flatten(policies), LAMBDA name : name # ""))

\* extract_channels without the dict.fromkeys of its last line
extract_channels_no_dedupe(alert_policies) ==
    LET policies == IF alert_policies.present THEN alert_policies.policies ELSE <<>>
    IN SelectSeq(Flatten(policies), LAMBDA name : name # "")

\* PerformanceOptimizer.extract_channels.  alert_policies is
\* [present, policies]: the "alertPolicies" value, absent or a list of
\* policies, each the list of the names of its channelsConfigurations ("" for
\* a configuration without a name).
extract_channels(alert_policies) ==
    LET policies == IF alert_policies.present THEN alert_policies.policies ELSE <<>>
        out == SelectSeq(Flatten(policies), LAMBDA name : name # "")
    IN Dedupe(out, {})


(***************************************************************************)
(* The remote API: what its three calls can answer                         *)
(***************************************************************************)
\* the suites the API may list: {name, watchlists:[{id}], customAgents:[{id}]}
SuitCatalog ==
    << [name |-> <<"[FOO]", "eth", "aave", "0xF">>,
        watchlists |-> <<3>>, customAgents |-> <<2>>],
       [name |-> <<"[POOL]", "eth", "aave", "0xP", "main", "pool">>,
        watchlists |-> <<1>>, customAgents |-> <<1>>],
       [name |-> <<"[TOKEN]", "eth", "0xT", "SYM">>,
        watchlists |-> <<2>>, customAgents |-> <<>>],
       [name |-> <<"[VAULT]", "eth">>,
        watchlists |-> <<4>>, customAgents |-> <<>>] >>

RECURSIVE Pick(_, _)
\* the suites of the catalogue at the indexes idx, in catalogue order
Pick(idx, from) ==
    IF from > Len(SuitCatalog) THEN <<>>
    ELSE (IF from \in idx THEN <<SuitCatalog[from]>> ELSE <<>>) \o Pick(idx, from + 1)

\* data.results of GET /security-suit/
SuitLists ==
    {Pick(idx, 1) : idx \in {x \in SUBSET (1..Len(SuitCatalog)) : Cardinality(x) <= MaxSuits}}

NoPolicies == [present |-> FALSE, policies |-> <<>>]
Policies(p) == [present |-> TRUE, policies |-> p]
NoRule == [present |-> FALSE, ruleString |-> ""]
Rule(r) == [present |-> TRUE, ruleString |-> r]

\* the "data" object of a monitor's detail body; id 0, name Absent and
\* agentType "" are fields the body does not hold
Data(id, name, agentType, description, alertPolicies, rule) ==
    [status |-> "ok", id |-> id, name |-> name, agentType |-> agentType,
     description |-> description, alertPolicies |-> alertPolicies, rule |-> rule]

\* session.get(...) or .json() raised: retries exhausted on a 503, a network
\* error, a body that is no JSON
FetchError == [status |-> "error"]
\* a JSON body without "data" (the body of a 4xx answer): .get("data", {})
NoData == Data(0, Absent, "", Absent, NoPolicies, NoRule)

\* the watchlists the remote side may hold: GET /watchlists/{id}/
WatchlistPayloads(id) ==
    << Data(id, <<"R1", "[POOL]", "eth", "aave", "0xP", "lbl">>, "", <<"d1">>,
            Policies(<< <<"chan-a", "chan-b">>, <<"chan-a">> >>), NoRule),
       Data(id, <<"R2", "[L2]", "arbitrum", "rollup">>, "", <<"d2">>, NoPolicies,
            NoRule),
       Data(id, <<"R3", "[FOO]", "eth", "x">>, "", <<"d3">>,
            Policies(<< <<"chan-a">> >>), NoRule),
       Data(id, <<"R4", "[POOL]", "eth">>, "", <<"d4">>,
            Policies(<< <<"chan-c">> >>), NoRule) >>

\* the custom agents the remote side may hold: GET /custom-agents/{id}/
AgentPayloads(id) ==
    << Data(id, <<"R5", "[vault]", "eth", "aave", "0xV", "SYM", "my", "vault">>,
            "balance", Absent,
            Policies(<< <<"chan-c", "">>, <<"chan-b", "chan-c">> >>), Rule("r5")),
       Data(id, <<"R6", "[TOKEN]", "eth", "0xT">>, "", Absent, Policies(<<>>), NoRule),
       Data(id, <<"R7", "[FOO]", "eth", "0xA">>, "", Absent,
            Policies(<< <<"chan-a">> >>), Rule("r7")),
       Data(id, <<"R8", "[FOO]", "eth">>, "", Absent, Policies(<< <<"chan-a">> >>),
            Rule("r8")),
       Data(id, <<"R9">>, "", Absent, NoPolicies, Rule("r9")) >>

\* The remote inventory is [results, variant]: the suite list, and which
\* payload each monitor id holds (the payloads are dealt round by variant).
Variants == 0..(Len(AgentPayloads(0)) - 1)

WatchlistOf(inventory, id) ==
    LET all == WatchlistPayloads(id)
    IN all[((id + inventory.variant) % Len(all)) + 1]

AgentOf(inventory, id) ==
    LET all == AgentPayloads(id)
    IN all[((id + inventory.variant) % Len(all)) + 1]

Inventories == [results : SuitLists, variant : Variants]

\* the inventories of the behaviours with several calls: a suite whose
\* watchlist gives two rows, and a suite list with no valid suite
FewInventories ==
    { [results |-> Pick({3}, 1), variant |-> 2],
      [results |-> Pick({1}, 1), variant |-> 0] }

\* a list of two suites, which a limit of one suite cuts: a suite whose
\* watchlist gives two rows, then a suite whose watchlist gives one
LimitInventories ==
    { [results |-> <<SuitCatalog[3],
                     [SuitCatalog[2] EXCEPT !.watchlists = <<3>>,
                                            !.customAgents = <<>>]>>,
       variant |-> 2] }

(***************************************************************************)
(* One monitor task                                                        *)
(***************************************************************************)
\* dict.get(key, "") on a string kept as tokens
GetName(name) == IF name = Absent THEN EmptyStr ELSE name

\* one row of the table (the dict appended to results)
Row(suit, parsed_suit, full_name, monitor_type, m, ch, description, link,
    monitor, client) ==
    [fullSuiteName |-> suit.name,
     suitContractType |-> parsed_suit.contract_type,
     suitBlockchain |-> parsed_suit.blockchain,
     suitProtocol |-> parsed_suit.protocol,
     suitAddress |-> parsed_suit.address,
     suitSymbol |-> parsed_suit.symbol,
     suitLabel |-> parsed_suit.label,
     fullMonitorName |-> full_name,
     monitorType |-> monitor_type,
     monitorRiskID |-> m.risk_id,
     monitorContractType |-> m.contract_type,
     monitorBlockchain |-> m.blockchain,
     monitorProtocol |-> m.protocol,
     monitorAddress |-> m.address,
     monitorSymbol |-> m.symbol,
     monitorLabel |-> m.label,
     monitorAlertChannel |-> ch,
     monitorDescription |-> description,
     monitorLink |-> link,
     monitor |-> monitor,
     Client |-> client]

\* alert_channels or ["None"]
channels_for_rows(alert_channels) ==
    IF alert_channels = <<>> THEN <<"None">> ELSE alert_channels

\* PerformanceOptimizer._fetch_watchlist_data; resp is what the GET answers.
\* The value is Ok(rows) or Raised.
fetch_watchlist_data(resp, suit, parsed_suit) ==
    IF resp.status = "error" THEN Raised
    ELSE LET wl_name == GetName(resp.name)
             parsed_watchlist == parse_watchlist_name(wl_name)
         IN
         IF parsed_watchlist = Raised THEN Raised
         ELSE IF parsed_watchlist = NoneResult THEN Ok(<<>>)
         ELSE LET chs == channels_for_rows(extract_channels(resp.alertPolicies))
                  link == IF resp.id # 0 THEN <<"watchlist", resp.id>> ELSE <<>>
              IN Ok([i \in 1..Len(chs) |->
                      Row(suit, parsed_suit, wl_name, "Watchlist",
                          parsed_watchlist.val, chs[i], GetName(resp.description),
                          link,
                          "Watchlist", get_client_dao(chs[i]))])

\* PerformanceOptimizer._fetch_agent_data
fetch_agent_data(resp, suit, parsed_suit) ==
    IF resp.status = "error" THEN Raised
    ELSE LET agent_name == GetName(resp.name)
             agent_type == IF resp.agentType = "" THEN "Custom Agent"
                           ELSE resp.agentType
             parsed_agent == parse_custom_agent_name(agent_name)
         IN
         IF parsed_agent = NoneResult THEN Ok(<<>>)
         ELSE LET chs == channels_for_rows(extract_channels(resp.alertPolicies))
                  rule_string == IF resp.rule.present
                                   THEN <<resp.rule.ruleString>> ELSE agent_name
                  link == IF resp.id # 0 THEN <<"custom-agents", resp.id>> ELSE <<>>
              IN Ok([i \in 1..Len(chs) |->
                      Row(suit, parsed_suit, agent_name, agent_type,
                          parsed_agent.val, chs[i], rule_string, link,
                          "Custom Agent", get_client_dao(chs[i]))])

\* PerformanceOptimizer._fetch_monitor_data: the rows the task returns; an
\* exception of the fetch is caught and gives no rows
fetch_monitor_data(task_type, resp, suit, parsed_suit) ==
    LET r == IF task_type = "watchlist"
               THEN fetch_watchlist_data(resp, suit, parsed_suit)
               ELSE fetch_agent_data(resp, suit, parsed_suit)
    IN IF r = Raised THEN <<>> ELSE r.val


(***************************************************************************)
(* State                                                                   *)
(***************************************************************************)
VARIABLES
    now,             \* datetime.now(), in seconds
    metaFile,        \* cache/cache_metadata.json
    dataFile,        \* cache/hn_data.json
    st_cache,        \* st.cache_data: the memoized results of load_data
    pc,              \* where the caller of get_hn_monitors_optimized stands
    args,            \* force_refresh, limit_suits and who calls
    suits,           \* the suites of the run, after the limit
    batch_i,         \* i of the loop over the batches
    suit_state,      \* per suite: its future, its monitor tasks, its results
    flattened_rows,
    ret,             \* the table the last call returned
    outcome,         \* how the last call ended: cache, failed or ingested
    requests,        \* the requests the current call has sent
    save_log,        \* what save_to_cache did in the current call
    files_at_call,   \* both cache files as the current call found them
    last_save,       \* the time of the last save that wrote both files, or -1
    cleared,         \* "Clear Cache" was pressed and nothing saved since
    calls_left,      \* calls of get_hn_monitors_optimized still to come
    remote,          \* what the remote API holds
    cache_lock,      \* self.cache_lock: the thread that holds it, or 0
    threads,         \* the threads that use the cache: where each stands
    written_by,      \* which save_to_cache last wrote each cache file
    http,            \* one session.get: the attempts the adapter has made
    decode           \* one call of a name decoder: its argument and result

vars == <<now, metaFile, dataFile, st_cache, pc, args, suits, batch_i, suit_state,
          flattened_rows, ret, outcome, requests, save_log, files_at_call,
          last_save, cleared, calls_left, remote, cache_lock, threads,
          written_by, http, decode>>

Missing == [state |-> "missing"]
Corrupt == [state |-> "corrupt"]
MetaOk(t, n) == [state |-> "ok", timestamp |-> t, row_count |-> n,
                 cache_version |-> "1.0"]
DataOk(records) == [state |-> "ok", records |-> records]

(***************************************************************************)
(* The cache                                                               *)
(***************************************************************************)
EmptyDict == [state |-> "empty"]

\* PerformanceOptimizer._get_cache_metadata: {} for a file that is missing
\* or that json.load rejects
get_cache_metadata(meta) ==
    IF meta.state = "ok" THEN meta ELSE EmptyDict

\* is_cache_valid with <= for <
is_cache_valid_inclusive(meta, t) ==
    LET metadata == get_cache_metadata(meta)
    IN IF metadata = EmptyDict THEN FALSE
       ELSE t - metadata.timestamp <= cache_duration

\* PerformanceOptimizer.is_cache_valid
is_cache_valid(meta, t) ==
    LET metadata == get_cache_metadata(meta)
    IN IF metadata = EmptyDict THEN FALSE
       ELSE t - metadata.timestamp < cache_duration

\* a cell of the table as JSON text: every cell of a row is a str
Dumps(cell) == [json |-> "string", text |-> cell]
\* json.load on a value of the file
Loads(value) == value.text

\* df.to_json(orient='records'): the list of the rows' objects
to_json(df) ==
    [i \in 1..Len(df) |-> [col \in DOMAIN df[i] |-> Dumps(df[i][col])]]
\* pd.DataFrame(json.load(f))
DataFrame(data) ==
    [i \in 1..Len(data) |-> [col \in DOMAIN data[i] |-> Loads(data[i][col])]]

\* load_from_cache without the check of the timestamp
load_from_cache_unchecked(meta, data, t) ==
    IF data.state = "ok" THEN Ok(DataFrame(data.records)) ELSE NoneResult

\* PerformanceOptimizer.load_from_cache: Ok(table) or None
load_from_cache(meta, data, t) ==
    IF ~is_cache_valid(meta, t) THEN NoneResult
    ELSE IF data.state = "missing" THEN NoneResult
    ELSE IF data.state = "corrupt" THEN NoneResult   \* json.load raises, caught
    ELSE Ok(DataFrame(data.records))

\* how a save_to_cache can go: both files written; to_json raises before or
\* while it writes the data file; the metadata file cannot be opened, or
\* breaks while it is written (both caught inside _set_cache_metadata)
SaveOutcomes == {"ok", "data_open_failed", "data_write_failed",
                 "meta_open_failed", "meta_write_failed"}

\* save_to_cache without line 87: only the metadata is written
save_to_cache_metadata_only(df, how, meta, data, t) ==
    [meta |-> MetaOk(t, Len(df)), data |-> data]

\* PerformanceOptimizer.save_to_cache: the two files after the call
save_to_cache(df, how, meta, data, t) ==
    LET written == DataOk(to_json(df)) IN
    CASE how = "ok" -> [meta |-> MetaOk(t, Len(df)), data |-> written]
      [] how = "data_open_failed" -> [meta |-> meta, data |-> data]
      [] how = "data_write_failed" -> [meta |-> meta, data |-> Corrupt]
      [] how = "meta_open_failed" -> [meta |-> meta, data |-> written]
      [] how = "meta_write_failed" -> [meta |-> Corrupt, data |-> written]

(***************************************************************************)
(* Initial state: a fresh cache directory, nothing called yet              *)
(***************************************************************************)
\* no save_to_cache has run
NoSaves == [meta |-> 0, data |-> 0, tables |-> <<>>]

\* no session.get under way
NoRequest == [state |-> "none", attempts |-> <<>>]

NoArgs == [force_refresh |-> FALSE, limit_suits |-> 0, via |-> "none"]

Init ==
    /\ now = 0
    /\ metaFile = Missing
    /\ dataFile = Missing
    /\ st_cache = {}
    /\ pc = "idle"
    /\ args = NoArgs
    /\ suits = <<>>
    /\ batch_i = 0
    /\ suit_state = <<>>
    /\ flattened_rows = <<>>
    /\ ret = <<>>
    /\ outcome = "none"
    /\ requests = {}
    /\ save_log = "none"
    /\ files_at_call = <<Missing, Missing>>
    /\ last_save = -1
    /\ cleared = FALSE
    /\ calls_left = MaxCalls
    /\ remote \in FewInventories
    /\ cache_lock = 0
    /\ threads = <<>>
    /\ written_by = NoSaves
    /\ http = NoRequest
    /\ decode = NoDecode

\* one call, on any inventory
InitRun ==
    /\ now = 0
    /\ metaFile = Missing
    /\ dataFile = Missing
    /\ st_cache = {}
    /\ pc = "idle"
    /\ args = NoArgs
    /\ suits = <<>>
    /\ batch_i = 0
    /\ suit_state = <<>>
    /\ flattened_rows = <<>>
    /\ ret = <<>>
    /\ outcome = "none"
    /\ requests = {}
    /\ save_log = "none"
    /\ files_at_call = <<Missing, Missing>>
    /\ last_save = -1
    /\ cleared = FALSE
    /\ calls_left = 1
    /\ remote \in Inventories
    /\ cache_lock = 0
    /\ threads = <<>>
    /\ written_by = NoSaves
    /\ http = NoRequest
    /\ decode = NoDecode

(***************************************************************************)
(* Actions                                                                 *)
(***************************************************************************)
\* time passes
Tick ==
    /\ now + ClockStep <= MaxTime
    /\ now' = now + ClockStep
    /\ UNCHANGED <<decode, cache_lock, threads, written_by, http,
                   metaFile, dataFile, st_cache, pc, args, suits, batch_i,
                   suit_state, flattened_rows, ret, outcome, requests, save_log,
                   files_at_call, last_save, cleared, calls_left, remote>>

Limits == 0..(MaxSuits - 1)

\* who calls get_hn_monitors_optimized, and with what.  The dashboard calls
\* through load_data, which st.cache_data memoizes on force_refresh
\* (main.py:37-57), and passes force_refresh = False only after
\* optimizer.is_cache_valid() (main.py:112-121); the test scripts call it
\* directly.  limit_suits None is 0: the code tests "limit_suits and ...".
CanCall(a) ==
    /\ pc \in {"idle", "done"}
    /\ calls_left > 0
    /\ a.via \in {"app", "direct"}
    /\ a.via = "app" =>
         /\ a.force_refresh \notin st_cache
         /\ ~a.force_refresh => is_cache_valid(metaFile, now)

Memoized(a) ==
    IF a.via = "app" THEN st_cache \cup {a.force_refresh} ELSE st_cache

\* CallCached if the limit of the call were applied to the cached table
CallCached_applies_limit(a) ==
    /\ CanCall(a)
    /\ ~a.force_refresh
    /\ load_from_cache(metaFile, dataFile, now) # NoneResult
    /\ args' = a
    /\ calls_left' = calls_left - 1
    /\ ret' = LET df == load_from_cache(metaFile, dataFile, now).val
              IN IF a.limit_suits > 0 /\ a.limit_suits < Len(df)
                   THEN SubSeq(df, 1, a.limit_suits) ELSE df
    /\ outcome' = "cache"
    /\ pc' = "done"
    /\ st_cache' = Memoized(a)
    /\ requests' = {}
    /\ save_log' = "none"
    /\ files_at_call' = <<metaFile, dataFile>>
    /\ suits' = <<>>
    /\ batch_i' = 0
    /\ suit_state' = <<>>
    /\ flattened_rows' = <<>>
    /\ UNCHANGED <<decode, cache_lock, threads, written_by, http,
                   now, metaFile, dataFile, last_save, cleared, remote>>

\* get_hn_monitors_optimized, lines 372-381: the cache answers the call
CallCached(a) ==
    /\ CanCall(a)
    /\ ~a.force_refresh
    /\ load_from_cache(metaFile, dataFile, now) # NoneResult
    /\ args' = a
    /\ calls_left' = calls_left - 1
    /\ ret' = load_from_cache(metaFile, dataFile, now).val
    /\ outcome' = "cache"
    /\ pc' = "done"
    /\ st_cache' = Memoized(a)
    /\ requests' = {}
    /\ save_log' = "none"
    /\ files_at_call' = <<metaFile, dataFile>>
    /\ suits' = <<>>
    /\ batch_i' = 0
    /\ suit_state' = <<>>
    /\ flattened_rows' = <<>>
    /\ UNCHANGED <<decode, cache_lock, threads, written_by, http,
                   now, metaFile, dataFile, last_save, cleared, remote>>

\* get_hn_monitors_optimized, lines 372-386: no cached table, a run starts
CallFresh(a) ==
    /\ CanCall(a)
    /\ a.force_refresh \/ load_from_cache(metaFile, dataFile, now) = NoneResult
    /\ args' = a
    /\ calls_left' = calls_left - 1
    /\ pc' = "fetch_suits"
    /\ requests' = {}
    /\ save_log' = "none"
    /\ files_at_call' = <<metaFile, dataFile>>
    /\ suits' = <<>>
    /\ batch_i' = 0
    /\ suit_state' = <<>>
    /\ flattened_rows' = <<>>
    /\ ret' = <<>>
    /\ outcome' = "none"
    /\ UNCHANGED <<decode, cache_lock, threads, written_by, http,
                   now, metaFile, dataFile, st_cache, last_save, cleared, remote>>

\* the handler of lines 427-429, if it also dropped the cache
FetchSuitsFailDropsCache ==
    /\ pc = "fetch_suits"
    /\ requests' = requests \cup {<<"security-suit", 0>>}
    /\ ret' = <<>>
    /\ outcome' = "failed"
    /\ pc' = "done"
    /\ st_cache' = Memoized(args)
    /\ metaFile' = Missing
    /\ UNCHANGED <<decode, cache_lock, threads, written_by, http,
                   now, dataFile, args, suits, batch_i, suit_state,
                   flattened_rows, save_log, files_at_call, last_save, cleared,
                   calls_left, remote>>

\* lines 388-391 and 427-429: the suite-list fetch raises
FetchSuitsFail ==
    /\ pc = "fetch_suits"
    /\ requests' = requests \cup {<<"security-suit", 0>>}
    /\ ret' = <<>>
    /\ outcome' = "failed"
    /\ pc' = "done"
    /\ st_cache' = Memoized(args)
    /\ UNCHANGED <<decode, cache_lock, threads, written_by, http,
                   now, metaFile, dataFile, args, suits, batch_i, suit_state,
                   flattened_rows, save_log, files_at_call, last_save, cleared,
                   calls_left, remote>>

\* the limit if it kept the tail of the list: suits[-limit_suits:]
ApplyLimit_keeps_tail(results, limit_suits) ==
    IF limit_suits # 0 /\ limit_suits > 0
      THEN SubSeq(results, IF limit_suits < Len(results)
                             THEN Len(results) - limit_suits + 1 ELSE 1,
                  Len(results))
      ELSE results

\* suits[:limit_suits] if limit_suits and limit_suits > 0
ApplyLimit(results, limit_suits) ==
    IF limit_suits # 0 /\ limit_suits > 0
      THEN SubSeq(results, 1, IF limit_suits < Len(results) THEN limit_suits
                              ELSE Len(results))
      ELSE results

NewSuit == [status |-> "waiting", error |-> FALSE, tasks |-> <<>>, results |-> <<>>]

\* lines 388-398: the suite list arrives
FetchSuitsOk ==
    /\ pc = "fetch_suits"
    /\ requests' = requests \cup {<<"security-suit", 0>>}
    /\ suits' = ApplyLimit(remote.results, args.limit_suits)
    /\ suit_state' = [s \in 1..Len(suits') |-> NewSuit]
    /\ batch_i' = 0
    /\ pc' = "batches"
    /\ UNCHANGED <<decode, cache_lock, threads, written_by, http,
                   now, metaFile, dataFile, st_cache, args, flattened_rows, ret,
                   outcome, save_log, files_at_call, last_save, cleared, calls_left, remote>>

Min(a, b) == IF a < b THEN a ELSE b

\* the suites of suits[i:i + batch_size]
Batch(i) == (i + 1)..Min(i + batch_size, Len(suits))

\* lines 402-409: the next batch is submitted to its pool
SubmitBatch ==
    /\ pc = "batches"
    /\ batch_i < Len(suits)
    /\ suit_state' = [s \in 1..Len(suits) |->
                        IF s \in Batch(batch_i)
                          THEN [suit_state[s] EXCEPT !.status = "submitted"]
                          ELSE suit_state[s]]
    /\ pc' = "in_batch"
    /\ UNCHANGED <<decode, cache_lock, threads, written_by, http,
                   now, metaFile, dataFile, st_cache, args, suits, batch_i,
                   flattened_rows, ret, outcome, requests, save_log,
                   files_at_call, last_save, cleared, calls_left, remote>>

Pending(task_type, id) ==
    [type |-> task_type, id |-> id, done |-> FALSE, resp |-> [status |-> "pending"],
     rows |-> <<>>]

\* fetch_suit_data, lines 124-132: the tasks of a suite
TasksOf(suit) ==
    [k \in 1..Len(suit.watchlists) |-> Pending("watchlist", suit.watchlists[k])]
      \o [k \in 1..Len(suit.customAgents) |-> Pending("agent", suit.customAgents[k])]

Running == {s \in 1..Len(suits) : suit_state[s].status = "running"}

\* SuitStart if the pool of line 405 had a worker for every suite
SuitStart_no_limit(s) ==
    /\ pc = "in_batch"
    /\ suit_state[s].status = "submitted"
    /\ LET parsed_suit == parse_suit_name(suits[s].name) IN
       suit_state' = [suit_state EXCEPT ![s] =
          IF parsed_suit = NoneResult
            THEN [@ EXCEPT !.status = "collected"]
          ELSE IF parsed_suit = Raised
            THEN [@ EXCEPT !.status = "collected", !.error = TRUE]
          ELSE [@ EXCEPT !.status = "running", !.tasks = TasksOf(suits[s])]]
    /\ UNCHANGED <<decode, cache_lock, threads, written_by, http,
                   now, metaFile, dataFile,
                   st_cache, pc, args, suits, batch_i, flattened_rows, ret,
                   outcome, requests, save_log, files_at_call, last_save,
                   cleared, calls_left, remote>>

\* fetch_suit_data, lines 113-132, in a worker of the pool of 3: the name is
\* parsed; None ends the suite with no rows, an exception ends it as a failed
\* future (lines 415-417), both collected at once by the caller
SuitStart(s) ==
    /\ pc = "in_batch"
    /\ suit_state[s].status = "submitted"
    /\ Cardinality(Running) < suit_workers
    /\ LET parsed_suit == parse_suit_name(suits[s].name) IN
       suit_state' = [suit_state EXCEPT ![s] =
          IF parsed_suit = NoneResult
            THEN [@ EXCEPT !.status = "collected"]
          ELSE IF parsed_suit = Raised
            THEN [@ EXCEPT !.status = "collected", !.error = TRUE]
          ELSE [@ EXCEPT !.status = "running", !.tasks = TasksOf(suits[s])]]
    /\ UNCHANGED <<decode, cache_lock, threads, written_by, http,
                   now, metaFile, dataFile, st_cache, pc, args, suits, batch_i,
                   flattened_rows, ret, outcome, requests, save_log,
                   files_at_call, last_save, cleared, calls_left, remote>>

\* what the GET of a monitor's detail can answer: the monitor, an exception,
\* or a body without data
Responses(task) ==
    {IF task.type = "watchlist" THEN WatchlistOf(remote, task.id)
     ELSE AgentOf(remote, task.id),
     FetchError, NoData}

RequestOf(task) ==
    <<IF task.type = "watchlist" THEN "watchlists" ELSE "custom-agents", task.id>>

\* _fetch_monitor_data and lines 142-149: one monitor task runs and its rows
\* join the suite's results, in the order the tasks complete
MonitorTask(s, k, resp) ==
    /\ pc = "in_batch"
    /\ suit_state[s].status = "running"
    /\ ~suit_state[s].tasks[k].done
    /\ LET task == suit_state[s].tasks[k]
           rows == fetch_monitor_data(task.type, resp, suits[s],
                                      parse_suit_name(suits[s].name).val)
       IN /\ requests' = requests \cup {RequestOf(task)}
          /\ suit_state' = [suit_state EXCEPT
                              ![s].tasks[k] = [@ EXCEPT !.done = TRUE,
                                                        !.resp = resp,
                                                        !.rows = rows],
                              ![s].results = @ \o rows]
    /\ UNCHANGED <<decode, cache_lock, threads, written_by, http,
                   now, metaFile, dataFile, st_cache, pc, args, suits, batch_i,
                   flattened_rows, ret, outcome, save_log, files_at_call,
                   last_save, cleared, calls_left, remote>>

\* SuitCollect if line 413 assigned the suite's rows instead of extending
SuitCollect_assigns(s) ==
    /\ pc = "in_batch"
    /\ suit_state[s].status = "running"
    /\ \A k \in 1..Len(suit_state[s].tasks) : suit_state[s].tasks[k].done
    /\ flattened_rows' = suit_state[s].results
    /\ suit_state' = [suit_state EXCEPT ![s].status = "collected"]
    /\ UNCHANGED <<decode, cache_lock, threads, written_by, http,
                   now, metaFile, dataFile, st_cache, pc, args, suits, batch_i,
                   ret, outcome, requests, save_log, files_at_call, last_save,
                   cleared, calls_left, remote>>

\* lines 151 and 411-414: the suite's future completes and its rows are
\* appended to flattened_rows
SuitCollect(s) ==
    /\ pc = "in_batch"
    /\ suit_state[s].status = "running"
    /\ \A k \in 1..Len(suit_state[s].tasks) : suit_state[s].tasks[k].done
    /\ flattened_rows' = flattened_rows \o suit_state[s].results
    /\ suit_state' = [suit_state EXCEPT ![s].status = "collected"]
    /\ UNCHANGED <<decode, cache_lock, threads, written_by, http,
                   now, metaFile, dataFile, st_cache, pc, args, suits, batch_i,
                   ret, outcome, requests, save_log, files_at_call, last_save,
                   cleared, calls_left, remote>>

\* BatchEnd if the with block of line 405 did not wait for its futures
BatchEnd_no_wait ==
    /\ pc = "in_batch"
    /\ batch_i' = batch_i + batch_size
    /\ pc' = IF Min(batch_i + batch_size, Len(suits)) < Len(suits)
               THEN "pause" ELSE "batches"
    /\ UNCHANGED <<decode, cache_lock, threads, written_by, http,
                   now, metaFile, dataFile,
                   st_cache, args, suits, suit_state, flattened_rows, ret,
                   outcome, requests, save_log, files_at_call, last_save,
                   cleared, calls_left, remote>>

\* BatchEnd without the sleep of lines 424-425
BatchEnd_no_pause ==
    /\ pc = "in_batch"
    /\ \A s \in Batch(batch_i) : suit_state[s].status = "collected"
    /\ batch_i' = batch_i + batch_size
    /\ pc' = "batches"
    /\ UNCHANGED <<decode, cache_lock, threads, written_by, http,
                   now, metaFile, dataFile, st_cache, args, suits, suit_state,
                   flattened_rows, ret, outcome, requests, save_log,
                   files_at_call, last_save, cleared, calls_left, remote>>

\* lines 419-425: the batch is over; processed = min(i + batch_size,
\* len(suits)), and the loop sleeps if processed < len(suits)
BatchEnd ==
    /\ pc = "in_batch"
    /\ \A s \in Batch(batch_i) : suit_state[s].status = "collected"
    /\ batch_i' = batch_i + batch_size
    /\ pc' = IF Min(batch_i + batch_size, Len(suits)) < Len(suits)
               THEN "pause" ELSE "batches"
    /\ UNCHANGED <<decode, cache_lock, threads, written_by, http,
                   now, metaFile, dataFile, st_cache, args, suits, suit_state,
                   flattened_rows, ret, outcome, requests, save_log,
                   files_at_call, last_save, cleared, calls_left, remote>>

\* line 425: time.sleep(0.2) returns.  Lists of more than batch_size suites
\* are those of SpecPool.
InterBatchPause ==
    /\ pc = "pause"
    /\ pc' = "batches"
    /\ UNCHANGED <<decode, cache_lock, threads, written_by, http,
                   now, metaFile, dataFile,
                   st_cache, args, suits, batch_i, suit_state, flattened_rows,
                   ret, outcome, requests, save_log, files_at_call, last_save,
                   cleared, calls_left, remote>>

\* lines 431-439 without the test of df.empty: the empty table is saved too
FinishEmptySaved ==
    /\ pc = "batches"
    /\ batch_i >= Len(suits)
    /\ flattened_rows = <<>>
    /\ metaFile' = MetaOk(now, 0)
    /\ dataFile' = DataOk(<<>>)
    /\ last_save' = now
    /\ save_log' = "ok"
    /\ cleared' = FALSE
    /\ ret' = <<>>
    /\ outcome' = "ingested"
    /\ pc' = "done"
    /\ st_cache' = Memoized(args)
    /\ UNCHANGED <<decode, cache_lock, threads, written_by, http,
                   now, args, suits, batch_i, suit_state, flattened_rows,
                   requests, files_at_call, calls_left, remote>>

\* lines 431-439 with an empty table: nothing is saved
FinishEmpty ==
    /\ pc = "batches"
    /\ batch_i >= Len(suits)
    /\ flattened_rows = <<>>
    /\ ret' = <<>>
    /\ outcome' = "ingested"
    /\ pc' = "done"
    /\ st_cache' = Memoized(args)
    /\ UNCHANGED <<decode, cache_lock, threads, written_by, http,
                   now, metaFile, dataFile, args, suits, batch_i, suit_state,
                   flattened_rows, requests, save_log, files_at_call, last_save,
                   cleared, calls_left, remote>>

\* lines 431-439 with rows: save_to_cache, then the table is returned
FinishSave(how) ==
    /\ pc = "batches"
    /\ batch_i >= Len(suits)
    /\ flattened_rows # <<>>
    /\ LET after == save_to_cache(flattened_rows, how, metaFile, dataFile, now)
       IN /\ metaFile' = after.meta
          /\ dataFile' = after.data
    /\ last_save' = IF how = "ok" THEN now ELSE last_save
    /\ save_log' = how
    /\ cleared' = FALSE
    /\ ret' = flattened_rows
    /\ outcome' = "ingested"
    /\ pc' = "done"
    /\ st_cache' = Memoized(args)
    /\ UNCHANGED <<decode, cache_lock, threads, written_by, http,
                   now, args, suits, batch_i, suit_state, flattened_rows,
                   requests, files_at_call, calls_left, remote>>

\* main.py:206-209, the "Clear Cache" button: st.cache_data.clear() and a
\* rerun.  The sidebar is drawn only once the dashboard has loaded a
\* non-empty table (main.py:123-156).
ClearCache ==
    /\ pc = "done"
    /\ args.via = "app"
    /\ ret # <<>>
    /\ st_cache' = {}
    /\ cleared' = TRUE
    /\ UNCHANGED <<decode, cache_lock, threads, written_by, http,
                   now, metaFile, dataFile, pc, args, suits, batch_i, suit_state,
                   flattened_rows, ret, outcome, requests, save_log,
                   files_at_call, last_save, calls_left, remote>>

CallArgs ==
    [force_refresh : BOOLEAN, limit_suits : Limits, via : {"app", "direct"}]

Next ==
    \/ Tick
    \/ \E a \in CallArgs : CallCached(a)
    \/ \E a \in CallArgs : CallFresh(a)
    \/ FetchSuitsFail
    \/ FetchSuitsOk
    \/ SubmitBatch
    \/ \E s \in 1..Len(suits) : SuitStart(s)
    \/ \E s \in 1..Len(suits) : \E k \in 1..Len(suit_state[s].tasks) :
         \E resp \in Responses(suit_state[s].tasks[k]) : MonitorTask(s, k, resp)
    \/ \E s \in 1..Len(suits) : SuitCollect(s)
    \/ BatchEnd
    \/ FinishEmpty
    \/ \E how \in SaveOutcomes : FinishSave(how)
    \/ ClearCache

Spec == Init /\ [][Next]_vars

\* several calls with and without limit_suits on a list of two suites; the
\* monitors' GETs are answered with what the remote side holds
InitLimit ==
    /\ now = 0
    /\ metaFile = Missing
    /\ dataFile = Missing
    /\ st_cache = {}
    /\ pc = "idle"
    /\ args = NoArgs
    /\ suits = <<>>
    /\ batch_i = 0
    /\ suit_state = <<>>
    /\ flattened_rows = <<>>
    /\ ret = <<>>
    /\ outcome = "none"
    /\ requests = {}
    /\ save_log = "none"
    /\ files_at_call = <<Missing, Missing>>
    /\ last_save = -1
    /\ cleared = FALSE
    /\ calls_left = MaxCalls
    /\ remote \in LimitInventories
    /\ cache_lock = 0
    /\ threads = <<>>
    /\ written_by = NoSaves
    /\ http = NoRequest
    /\ decode = NoDecode

MonitorAnswer(s, k) ==
    MonitorTask(s, k, WatchlistOf(remote, suit_state[s].tasks[k].id))

NextLimit ==
    \/ Tick
    \/ \E a \in CallArgs : CallCached(a)
    \/ \E a \in CallArgs : CallFresh(a)
    \/ FetchSuitsFail
    \/ FetchSuitsOk
    \/ SubmitBatch
    \/ \E s \in 1..Len(suits) : SuitStart(s)
    \/ \E s \in 1..Len(suits) : \E k \in 1..Len(suit_state[s].tasks) :
         MonitorAnswer(s, k)
    \/ \E s \in 1..Len(suits) : SuitCollect(s)
    \/ BatchEnd
    \/ \E how \in SaveOutcomes : FinishSave(how)

SpecLimit == InitLimit /\ [][NextLimit]_vars

\* one run: the clock stands still and no dashboard button is pressed
NextRun ==
    \/ \E a \in CallArgs : CallFresh(a)
    \/ FetchSuitsFail
    \/ FetchSuitsOk
    \/ SubmitBatch
    \/ \E s \in 1..Len(suits) : SuitStart(s)
    \/ \E s \in 1..Len(suits) : \E k \in 1..Len(suit_state[s].tasks) :
         \E resp \in Responses(suit_state[s].tasks[k]) : MonitorTask(s, k, resp)
    \/ \E s \in 1..Len(suits) : SuitCollect(s)
    \/ BatchEnd
    \/ FinishEmpty
    \/ \E how \in SaveOutcomes : FinishSave(how)

SpecRun == InitRun /\ [][NextRun]_vars


(***************************************************************************)
(* The cache under concurrent callers.  The optimizer is one object of the *)
(* dashboard's process (line 442) and each session runs main.py in its own *)
(* thread: a thread checks is_cache_valid (main.py:117, 182, 192), loads   *)
(* from the cache or saves to it.  Here save_to_cache and load_from_cache  *)
(* go one file access at a time; the clock stands still, so that a cache   *)
(* once written stays within its TTL.                                      *)
(***************************************************************************)
\* save_to_cache calls in one behaviour
MaxSaves == 2
\* the threads of the process
MaxThreads == 2

Threads == 1..MaxThreads

IdleThread ==
    [pc |-> "idle", df |-> <<>>, id |-> 0, how |-> "none", stamp |-> 0,
     before |-> <<Missing, Missing>>, meta |-> Missing,
     checked_at |-> 0, meta_seen |-> 0, data_seen |-> 0, result |-> NoneResult,
     valid |-> FALSE]

\* the tables the threads save: the rows of one watchlist with two channels,
\* and the first of them alone
CacheTables ==
    LET suit == SuitCatalog[3]
        rows == fetch_monitor_data("watchlist", WatchlistPayloads(1)[1], suit,
                                   parse_suit_name(suit.name).val)
    IN {rows, SubSeq(rows, 1, 1)}

InitCache ==
    /\ now = 0
    /\ metaFile = Missing
    /\ dataFile = Missing
    /\ st_cache = {}
    /\ pc = "idle"
    /\ args = NoArgs
    /\ suits = <<>>
    /\ batch_i = 0
    /\ suit_state = <<>>
    /\ flattened_rows = <<>>
    /\ ret = <<>>
    /\ outcome = "none"
    /\ requests = {}
    /\ save_log = "none"
    /\ files_at_call = <<Missing, Missing>>
    /\ last_save = -1
    /\ cleared = FALSE
    /\ calls_left = 0
    /\ remote \in {[results |-> <<>>, variant |-> 0]}
    /\ cache_lock = 0
    /\ threads = [t \in Threads |-> IdleThread]
    /\ written_by = NoSaves
    /\ http = NoRequest
    /\ decode = NoDecode

\* what the threads of the cache leave alone
RunUnchanged ==
    UNCHANGED <<st_cache, pc, args, suits, batch_i, suit_state, flattened_rows,
                ret, outcome, requests, save_log, files_at_call, last_save,
                cleared, calls_left, remote, http, decode>>

\* the threads that wait for the lock to save
Saving == {t \in Threads : threads[t].pc = "save_lock"}

\* line 376: a thread calls get_hn_monitors_optimized(force_refresh=True),
\* which goes to the API without reading the cache
BeginForced(t) ==
    /\ threads[t].pc = "idle"
    /\ threads' = [threads EXCEPT ![t] = [IdleThread EXCEPT !.pc = "ingest"]]
    /\ UNCHANGED <<now, metaFile, dataFile, cache_lock, written_by>>
    /\ RunUnchanged

\* lines 427-433 and 437-439: the run failed or gave no rows; the call
\* returns an empty table and saves nothing
IngestEmpty(t) ==
    /\ threads[t].pc = "ingest"
    /\ threads' = [threads EXCEPT ![t] = IdleThread]
    /\ UNCHANGED <<now, metaFile, dataFile, cache_lock, written_by>>
    /\ RunUnchanged

\* lines 431-435: the run gave the rows df and calls save_to_cache(df)
BeginSave(t, df) ==
    /\ threads[t].pc = "ingest"
    /\ Len(written_by.tables) + Cardinality(Saving) < MaxSaves
    /\ threads' = [threads EXCEPT ![t] =
                     [IdleThread EXCEPT !.pc = "save_lock", !.df = df]]
    /\ UNCHANGED <<now, metaFile, dataFile, cache_lock, written_by>>
    /\ RunUnchanged

\* lines 376-378: a thread calls get_hn_monitors_optimized(force_refresh=
\* False), which calls load_from_cache()
BeginLoad(t) ==
    /\ threads[t].pc = "idle"
    /\ threads' = [threads EXCEPT ![t] =
                     [IdleThread EXCEPT !.pc = "load_lock"]]
    /\ UNCHANGED <<now, metaFile, dataFile, cache_lock, written_by>>
    /\ RunUnchanged

\* "with self.cache_lock" if the lock were not exclusive
Acquire_not_exclusive(t) ==
    /\ threads[t].pc \in {"save_lock", "load_lock"}
    /\ cache_lock' = t
    /\ threads' = [threads EXCEPT ![t] =
                     IF @.pc = "save_lock"
                       THEN [@ EXCEPT !.pc = "save_data_open",
                                      !.id = Len(written_by.tables) + 1]
                       ELSE [@ EXCEPT !.pc = "load_check"]]
    /\ written_by' = IF threads[t].pc = "save_lock"
                       THEN [written_by EXCEPT !.tables = Append(@, threads[t].df)]
                       ELSE written_by
    /\ UNCHANGED <<now, metaFile, dataFile>>
    /\ RunUnchanged

\* lines 67 and 84: "with self.cache_lock"
Acquire(t) ==
    /\ threads[t].pc \in {"save_lock", "load_lock"}
    /\ cache_lock = 0
    /\ cache_lock' = t
    /\ threads' = [threads EXCEPT ![t] =
                     IF @.pc = "save_lock"
                       THEN [@ EXCEPT !.pc = "save_data_open",
                                      !.id = Len(written_by.tables) + 1]
                       ELSE [@ EXCEPT !.pc = "load_check"]]
    /\ written_by' = IF threads[t].pc = "save_lock"
                       THEN [written_by EXCEPT !.tables = Append(@, threads[t].df)]
                       ELSE written_by
    /\ UNCHANGED <<now, metaFile, dataFile>>
    /\ RunUnchanged

\* Release if the with block kept the lock when its body had failed
Release_keeps_lock_on_failure(t) ==
    /\ threads[t].pc \in {"save_unlock", "load_unlock"}
    /\ cache_lock' = IF cache_lock = t /\ threads[t].how \in {"none", "ok"}
                       THEN 0 ELSE cache_lock
    /\ threads' = [threads EXCEPT ![t] =
                     IF @.pc = "load_unlock" /\ @.result = NoneResult
                       THEN [IdleThread EXCEPT !.pc = "ingest"]
                       ELSE IdleThread]
    /\ UNCHANGED <<now, metaFile, dataFile, written_by>>
    /\ RunUnchanged

\* the end of the with block.  After save_to_cache the call returns df
\* (line 439); after load_from_cache it returns the cached table (lines
\* 379-381) or, if there was none, goes to the API (line 383)
Release(t) ==
    /\ threads[t].pc \in {"save_unlock", "load_unlock"}
    /\ cache_lock' = IF cache_lock = t THEN 0 ELSE cache_lock
    /\ threads' = [threads EXCEPT ![t] =
                     IF @.pc = "load_unlock" /\ @.result = NoneResult
                       THEN [IdleThread EXCEPT !.pc = "ingest"]
                       ELSE IdleThread]
    /\ UNCHANGED <<now, metaFile, dataFile, written_by>>
    /\ RunUnchanged

\* line 87, df.to_json opens the data file for writing: the file is
\* truncated, or the open raises and the handler of line 97 ends the save
SaveDataOpen(t, ok) ==
    /\ threads[t].pc = "save_data_open"
    /\ threads' = [threads EXCEPT ![t] =
                     [@ EXCEPT !.before = <<metaFile, dataFile>>,
                               !.pc = IF ok THEN "save_data_write" ELSE "save_unlock",
                               !.how = IF ok THEN @ ELSE "data_open_failed"]]
    /\ dataFile' = IF ok THEN Corrupt ELSE dataFile
    /\ written_by' = IF ok THEN [written_by EXCEPT !.data = threads[t].id]
                     ELSE written_by
    /\ UNCHANGED <<now, metaFile, cache_lock>>
    /\ RunUnchanged

\* line 87, the records are written; a write that raises leaves a part
SaveDataWrite(t, ok) ==
    /\ threads[t].pc = "save_data_write"
    /\ threads' = [threads EXCEPT ![t] =
                     [@ EXCEPT !.pc = IF ok THEN "save_meta_open" ELSE "save_unlock",
                               !.how = IF ok THEN @ ELSE "data_write_failed"]]
    /\ dataFile' = IF ok THEN DataOk(to_json(threads[t].df)) ELSE Corrupt
    /\ written_by' = [written_by EXCEPT !.data = threads[t].id]
    /\ UNCHANGED <<now, metaFile, cache_lock>>
    /\ RunUnchanged

\* lines 90-94 and 48: the timestamp is taken and the metadata file is
\* opened for writing, which truncates it; an open that raises is caught
\* at line 50
SaveMetaOpen(t, ok) ==
    /\ threads[t].pc = "save_meta_open"
    /\ threads' = [threads EXCEPT ![t] =
                     [@ EXCEPT !.stamp = now,
                               !.pc = IF ok THEN "save_meta_write" ELSE "save_unlock",
                               !.how = IF ok THEN @ ELSE "meta_open_failed"]]
    /\ metaFile' = IF ok THEN Corrupt ELSE metaFile
    /\ written_by' = IF ok THEN [written_by EXCEPT !.meta = threads[t].id]
                     ELSE written_by
    /\ UNCHANGED <<now, dataFile, cache_lock>>
    /\ RunUnchanged

\* line 49: json.dump writes the metadata
SaveMetaWrite(t, ok) ==
    /\ threads[t].pc = "save_meta_write"
    /\ threads' = [threads EXCEPT ![t] =
                     [@ EXCEPT !.pc = "save_unlock",
                               !.how = IF ok THEN "ok" ELSE "meta_write_failed"]]
    /\ metaFile' = IF ok THEN MetaOk(threads[t].stamp, Len(threads[t].df))
                   ELSE Corrupt
    /\ written_by' = [written_by EXCEPT !.meta = threads[t].id]
    /\ UNCHANGED <<now, dataFile, cache_lock>>
    /\ RunUnchanged

\* LoadCheck if is_cache_valid took the lock that load_from_cache holds
LoadCheck_takes_lock(t) ==
    /\ threads[t].pc = "load_check"
    /\ cache_lock = 0
    /\ threads' = [threads EXCEPT ![t] =
                     [@ EXCEPT !.meta = metaFile, !.checked_at = now,
                               !.valid = is_cache_valid(metaFile, now),
                               !.meta_seen = written_by.meta,
                               !.pc = IF is_cache_valid(metaFile, now)
                                        THEN "load_read" ELSE "load_unlock"]]
    /\ UNCHANGED <<now, metaFile, dataFile, cache_lock, written_by>>
    /\ RunUnchanged

\* lines 68-69: is_cache_valid, which takes no lock, reads the metadata file
LoadCheck(t) ==
    /\ threads[t].pc = "load_check"
    /\ threads' = [threads EXCEPT ![t] =
                     [@ EXCEPT !.meta = metaFile, !.checked_at = now,
                               !.valid = is_cache_valid(metaFile, now),
                               !.meta_seen = written_by.meta,
                               !.pc = IF is_cache_valid(metaFile, now)
                                        THEN "load_read" ELSE "load_unlock"]]
    /\ UNCHANGED <<now, metaFile, dataFile, cache_lock, written_by>>
    /\ RunUnchanged

\* lines 71-80: the data file is read
LoadRead(t) ==
    /\ threads[t].pc = "load_read"
    /\ threads' = [threads EXCEPT ![t] =
                     [@ EXCEPT !.result = load_from_cache(threads[t].meta, dataFile,
                                                          threads[t].checked_at),
                               !.data_seen = written_by.data,
                               !.pc = "load_unlock"]]
    /\ UNCHANGED <<now, metaFile, dataFile, cache_lock, written_by>>
    /\ RunUnchanged

\* main.py:117, 182, 192: the script is about to call optimizer.is_cache_valid()
BeginCheck(t) ==
    /\ threads[t].pc = "idle"
    /\ threads' = [threads EXCEPT ![t] = [IdleThread EXCEPT !.pc = "valid_check"]]
    /\ UNCHANGED <<now, metaFile, dataFile, cache_lock, written_by>>
    /\ RunUnchanged

\* is_cache_valid, lines 53-63, called from main.py: no lock is taken
CheckValid(t) ==
    /\ threads[t].pc = "valid_check"
    /\ threads' = [threads EXCEPT ![t] =
                     [@ EXCEPT !.meta = metaFile, !.checked_at = now,
                               !.valid = is_cache_valid(metaFile, now),
                               !.meta_seen = written_by.meta,
                               !.pc = "checked"]]
    /\ UNCHANGED <<now, metaFile, dataFile, cache_lock, written_by>>
    /\ RunUnchanged

\* the script goes on with the answer
EndCheck(t) ==
    /\ threads[t].pc = "checked"
    /\ threads' = [threads EXCEPT ![t] = IdleThread]
    /\ UNCHANGED <<now, metaFile, dataFile, cache_lock, written_by>>
    /\ RunUnchanged

NextCache ==
    \/ \E t \in Threads : BeginForced(t)
    \/ \E t \in Threads : BeginLoad(t)
    \/ \E t \in Threads : IngestEmpty(t)
    \/ \E t \in Threads : \E df \in CacheTables : BeginSave(t, df)
    \/ \E t \in Threads : Acquire(t)
    \/ \E t \in Threads : Release(t)
    \/ \E t \in Threads : \E ok \in BOOLEAN : SaveDataOpen(t, ok)
    \/ \E t \in Threads : \E ok \in BOOLEAN : SaveDataWrite(t, ok)
    \/ \E t \in Threads : \E ok \in BOOLEAN : SaveMetaOpen(t, ok)
    \/ \E t \in Threads : \E ok \in BOOLEAN : SaveMetaWrite(t, ok)
    \/ \E t \in Threads : LoadCheck(t)
    \/ \E t \in Threads : LoadRead(t)
    \/ \E t \in Threads : BeginCheck(t)
    \/ \E t \in Threads : CheckValid(t)
    \/ \E t \in Threads : EndCheck(t)

SpecCache == InitCache /\ [][NextCache]_vars

\* what the thread t does once it is inside a call, but for taking the lock;
\* the runs that give rows give the same table
Proceed(t) ==
    \/ IngestEmpty(t)
    \/ \E df \in {rows \in CacheTables : Len(rows) = 2} : BeginSave(t, df)
    \/ Release(t)
    \/ \E ok \in BOOLEAN : SaveDataOpen(t, ok)
    \/ \E ok \in BOOLEAN : SaveDataWrite(t, ok)
    \/ \E ok \in BOOLEAN : SaveMetaOpen(t, ok)
    \/ \E ok \in BOOLEAN : SaveMetaWrite(t, ok)
    \/ LoadCheck(t)
    \/ LoadRead(t)

\* the calls of get_hn_monitors_optimized alone, without the dashboard's
\* own calls of is_cache_valid, which take no lock
NextCalls ==
    \/ \E t \in Threads : BeginForced(t)
    \/ \E t \in Threads : BeginLoad(t)
    \/ \E t \in Threads : Acquire(t)
    \/ \E t \in Threads : Proceed(t)

\* The threads keep running: a thread inside a call takes its next step
\* (the file accesses end, and so does the run at the API, whose requests
\* carry timeouts), and a thread that waits at "with self.cache_lock" gets
\* the lock if it is free again and again.  Nothing obliges a thread to
\* start a call.
SpecCacheLive ==
    /\ InitCache
    /\ [][NextCalls]_vars
    /\ \A t \in Threads : WF_vars(Proceed(t)) /\ SF_vars(Acquire(t))


(***************************************************************************)
(* One run with its two worker pools: the pool of 3 that runs the suites   *)
(* of a batch and, in each suite, the pool of 5 that runs its monitor      *)
(* tasks.  A monitor task is sent (its GET is in flight) and later         *)
(* answered.                                                               *)
(***************************************************************************)
\* suites with monitors in the suite list of the run
PoolSuits == 4
\* monitors of its first suite
PoolTasks == 6

monitor_workers == 5

\* the suite list: a suite with PoolTasks watchlists, a suite with one
\* watchlist, suites without monitors, a suite whose name makes
\* parse_suit_name raise and a suite with an unknown tag
PoolSuitList ==
    [s \in 1..PoolSuits |->
        IF s = 1
          THEN [name |-> <<"[POOL]", "eth", "aave", "0xP", "main", "pool">>,
                watchlists |-> [k \in 1..PoolTasks |-> k], customAgents |-> <<>>]
        ELSE IF s = 2 THEN SuitCatalog[3]
        ELSE [SuitCatalog[3] EXCEPT !.watchlists = <<>>]]
      \o <<SuitCatalog[4], SuitCatalog[1]>>

PoolInventories == {[results |-> PoolSuitList, variant |-> 2]}

PoolArgs == {[force_refresh |-> TRUE, limit_suits |-> 0, via |-> "direct"]}

InitPool ==
    /\ now = 0
    /\ metaFile = Missing
    /\ dataFile = Missing
    /\ st_cache = {}
    /\ pc = "idle"
    /\ args = NoArgs
    /\ suits = <<>>
    /\ batch_i = 0
    /\ suit_state = <<>>
    /\ flattened_rows = <<>>
    /\ ret = <<>>
    /\ outcome = "none"
    /\ requests = {}
    /\ save_log = "none"
    /\ files_at_call = <<Missing, Missing>>
    /\ last_save = -1
    /\ cleared = FALSE
    /\ calls_left = 1
    /\ remote \in PoolInventories
    /\ cache_lock = 0
    /\ threads = <<>>
    /\ written_by = NoSaves
    /\ http = NoRequest
    /\ decode = NoDecode

\* the monitor tasks of a suite whose GET is under way
InFlight(s) ==
    {k \in 1..Len(suit_state[s].tasks) :
        suit_state[s].tasks[k].resp.status = "in_flight"}

AllInFlight ==
    UNION {{<<s, k>> : k \in InFlight(s)} : s \in 1..Len(suit_state)}

\* lines 136-140: a worker of the suite's pool of 5 takes the next task of
\* the queue and sends its GET
MonitorSend(s, k) ==
    /\ pc = "in_batch"
    /\ suit_state[s].status = "running"
    /\ suit_state[s].tasks[k].resp.status = "pending"
    /\ \A j \in 1..(k - 1) : suit_state[s].tasks[j].resp.status # "pending"
    /\ Cardinality(InFlight(s)) < monitor_workers
    /\ suit_state' = [suit_state EXCEPT ![s].tasks[k].resp = [status |-> "in_flight"]]
    /\ UNCHANGED <<decode, cache_lock, threads, written_by, http,
                   now, metaFile, dataFile,
                   st_cache, pc, args, suits, batch_i, flattened_rows, ret,
                   outcome, requests, save_log, files_at_call, last_save,
                   cleared, calls_left, remote>>

\* the GET is answered with what the remote side holds, and the task ends:
\* with rows, with none, or with an exception of the decoder that line 161
\* catches
MonitorReceive(s, k) ==
    /\ suit_state[s].tasks[k].resp.status = "in_flight"
    /\ MonitorTask(s, k, WatchlistOf(remote, suit_state[s].tasks[k].id))

NextPool ==
    \/ \E a \in PoolArgs : CallFresh(a)
    \/ FetchSuitsFail
    \/ FetchSuitsOk
    \/ SubmitBatch
    \/ \E s \in 1..Len(suits) : SuitStart(s)
    \/ \E s \in 1..Len(suits) : \E k \in 1..Len(suit_state[s].tasks) :
         MonitorSend(s, k)
    \/ \E s \in 1..Len(suits) : \E k \in 1..Len(suit_state[s].tasks) :
         MonitorReceive(s, k)
    \/ \E s \in 1..Len(suits) : SuitCollect(s)
    \/ BatchEnd
    \/ InterBatchPause
    \/ \E how \in SaveOutcomes : FinishSave(how)

SpecPool == InitPool /\ [][NextPool]_vars


(***************************************************************************)
(* One remote call: session.get through the HTTPAdapter that create_session*)
(* mounts, with Retry(total=3, status_forcelist=[429, 500, 502, 503, 504]) *)
(***************************************************************************)
retry_total == 3

status_forcelist == {"429", "500", "502", "503", "504"}

\* what one attempt can meet: a status of the response, or no response
\* (connection refused, read timeout)
AttemptOutcomes == {"200", "404", "429", "500", "501", "503", "network"}

Endpoints == {"security-suit", "watchlists", "custom-agents"}

\* Retry of urllib3, for a GET, if it retried after every answer but a 2xx
ShouldRetry_any_failure(result) == result # "200"

\* Retry of urllib3, for a GET: a status of the forcelist, or an error below
\* HTTP, asks for another attempt
ShouldRetry(result) == result \in status_forcelist \/ result = "network"

InitHttp ==
    /\ now = 0
    /\ metaFile = Missing
    /\ dataFile = Missing
    /\ st_cache = {}
    /\ pc = "idle"
    /\ args = NoArgs
    /\ suits = <<>>
    /\ batch_i = 0
    /\ suit_state = <<>>
    /\ flattened_rows = <<>>
    /\ ret = <<>>
    /\ outcome = "none"
    /\ requests = {}
    /\ save_log = "none"
    /\ files_at_call = <<Missing, Missing>>
    /\ last_save = -1
    /\ cleared = FALSE
    /\ calls_left = 0
    /\ remote \in {[results |-> <<>>, variant |-> 0]}
    /\ cache_lock = 0
    /\ threads = <<>>
    /\ written_by = NoSaves
    /\ http = NoRequest
    /\ decode = NoDecode

HttpUnchanged ==
    UNCHANGED <<now, metaFile, dataFile, st_cache, pc, args, suits, batch_i,
                suit_state, flattened_rows, ret, outcome, requests, save_log,
                files_at_call, last_save, cleared, calls_left, remote,
                cache_lock, threads, written_by, decode>>

\* lines 169, 214, 390: session.get(endpoint, headers=header, timeout=...)
HttpGet(endpoint) ==
    /\ http.state \in {"none", "returned", "raised"}
    /\ http' = [state |-> "sending", endpoint |-> endpoint, attempts |-> <<>>,
                total |-> retry_total]
    /\ HttpUnchanged

\* one attempt of the adapter.  An outcome that asks for a retry takes one
\* from total; below 0 the adapter gives up and session.get raises (RetryError
\* or ConnectionError), else it sleeps the backoff and sends again.  Any other
\* response is returned to the caller.
HttpAttempt(result) ==
    /\ http.state = "sending"
    /\ http' = IF ShouldRetry(result)
                 THEN [http EXCEPT !.attempts = Append(@, result),
                                   !.total = @ - 1,
                                   !.state = IF http.total - 1 < 0 THEN "raised"
                                             ELSE "sending"]
                 ELSE [http EXCEPT !.attempts = Append(@, result),
                                   !.state = "returned"]
    /\ HttpUnchanged

NextHttp ==
    \/ \E endpoint \in Endpoints : HttpGet(endpoint)
    \/ \E result \in AttemptOutcomes : HttpAttempt(result)

SpecHttp == InitHttp /\ [][NextHttp]_vars

(***************************************************************************)
(* The name decoders on their own: one call of one decoder on one name     *)
(***************************************************************************)
\* the longest name, in tokens
MaxTokens == 8

\* the first token of a suite name, the second of a monitor name: the tags
\* of the three grammars in upper case, some of them in lower or mixed case,
\* a tag of no grammar, the empty token and a token that is no tag
NameTags == {"[TOKEN]", "[token]", "[POOL]", "[pool]", "[VAULT]", "[vault]",
             "[Vault]", "[BRIDGE]", "[bridge]", "[EOA]", "[eoa]", "[MULTISIG]",
             "[OTHER]", "[other]", "[ORACLE]", "[TIMELOCK]", "[PROTOCOL]",
             "[CONSENSUSLAYER]", "[L2]", "[FOO]", "[foo]", "", "eth"}

\* the tokens after the tag
NameTokens == <<"eth", "aave", "0xA", "SYM", "my", "label", "of", "more",
                "words", "yet">>

\* name.split(" ") of the names given to the decoders: a suite name begins
\* with its tag, a monitor name with its risk id and then its tag
Names ==
    {SubSeq(<<tag>> \o NameTokens, 1, n) : tag \in NameTags, n \in 1..MaxTokens}
    \cup {SubSeq(<<"R1", tag>> \o NameTokens, 1, n) :
             tag \in NameTags, n \in 1..MaxTokens}

Decoders == {"parse_suit_name", "parse_watchlist_name", "parse_custom_agent_name",
             "getHN_parse_custom_agent_name"}

InitDecode ==
    /\ now = 0
    /\ metaFile = Missing
    /\ dataFile = Missing
    /\ st_cache = {}
    /\ pc = "idle"
    /\ args = NoArgs
    /\ suits = <<>>
    /\ batch_i = 0
    /\ suit_state = <<>>
    /\ flattened_rows = <<>>
    /\ ret = <<>>
    /\ outcome = "none"
    /\ requests = {}
    /\ save_log = "none"
    /\ files_at_call = <<Missing, Missing>>
    /\ last_save = -1
    /\ cleared = FALSE
    /\ calls_left = 0
    /\ remote \in {[results |-> <<>>, variant |-> 0]}
    /\ cache_lock = 0
    /\ threads = <<>>
    /\ written_by = NoSaves
    /\ http = NoRequest
    /\ decode \in {[state |-> "called", decoder |-> d, name |-> parts,
                     result |-> NoneResult] : d \in Decoders, parts \in Names}

DecodeUnchanged ==
    UNCHANGED <<now, metaFile, dataFile, st_cache, pc, args, suits, batch_i,
                suit_state, flattened_rows, ret, outcome, requests, save_log,
                files_at_call, last_save, cleared, calls_left, remote,
                cache_lock, threads, written_by, http>>

\* the call returns (or raises)
Returns(decoder, result) ==
    /\ decode.state = "called"
    /\ decode.decoder = decoder
    /\ decode' = [decode EXCEPT !.state = "returned", !.result = result]
    /\ DecodeUnchanged

ParseSuit == Returns("parse_suit_name", parse_suit_name(decode.name))

ParseWatchlist == Returns("parse_watchlist_name", parse_watchlist_name(decode.name))

ParseCustomAgent ==
    Returns("parse_custom_agent_name", parse_custom_agent_name(decode.name))

ParseCustomAgentGetHN ==
    Returns("getHN_parse_custom_agent_name",
            getHN_parse_custom_agent_name(decode.name))

NextDecode ==
    \/ ParseSuit
    \/ ParseWatchlist
    \/ ParseCustomAgent
    \/ ParseCustomAgentGetHN

SpecDecode == InitDecode /\ [][NextDecode]_vars



(***************************************************************************)
(* Properties                                                              *)
(***************************************************************************)
\* a step that is a call of get_hn_monitors_optimized
IsCall == calls_left' = calls_left - 1

SuitRequest == <<"security-suit", 0>>

\* C1 as stated: a call with force_refresh false that finds the cache valid
\* sends no request and returns the cached table
C1_ValidCacheAlwaysServes ==
    [][(IsCall /\ ~args'.force_refresh /\ is_cache_valid(metaFile, now))
         => (pc' = "done" /\ outcome' = "cache" /\ requests' = {})]_vars

\* C1, amended: a call sends no request and returns the table of the data
\* file exactly when force_refresh is false, the cache is valid and the data
\* file can be read; every other call starts a run, whose first request is
\* the suite list
C1_CacheServesIffLoadable ==
    /\ [][IsCall =>
            IF /\ ~args'.force_refresh
               /\ is_cache_valid(metaFile, now)
               /\ dataFile.state = "ok"
              THEN /\ pc' = "done"
                   /\ outcome' = "cache"
                   /\ requests' = {}
                   /\ ret' = DataFrame(dataFile.records)
              ELSE /\ pc' = "fetch_suits"
                   /\ requests' = {}]_vars
    /\ [](pc = "fetch_suits" => requests = {})
    /\ [](requests # {} => SuitRequest \in requests)

C1_Witness ==
    /\ pc = "done"
    /\ outcome = "cache"
    /\ ~args.force_refresh
    /\ requests = {}
    /\ ret # <<>>
    /\ ret = DataFrame(dataFile.records)

\* C2: a run that ends calls save_to_cache if and only if its table has
\* rows; a run with an empty table returns it and leaves both cache files
\* as it found them
C2_SaveIffRows ==
    (pc = "done" /\ outcome = "ingested") =>
        /\ ret = flattened_rows
        /\ save_log # "none" <=> ret # <<>>
        /\ ret = <<>> => <<metaFile, dataFile>> = files_at_call
        /\ save_log = "ok" =>
             /\ dataFile = DataOk(to_json(ret))
             /\ metaFile.state = "ok"
             /\ metaFile.row_count = Len(ret)

C2_Witness ==
    /\ pc = "done"
    /\ outcome = "ingested"
    /\ ret = <<>>
    /\ metaFile.state = "ok"
    /\ dataFile.state = "ok"
    /\ dataFile.records # <<>>

\* C3: when the suite-list fetch fails the call returns the empty table,
\* has sent no request for a monitor, has not called save_to_cache and
\* leaves both cache files as it found them
C3_SuitListFailure ==
    (pc = "done" /\ outcome = "failed") =>
        /\ ret = <<>>
        /\ requests = {SuitRequest}
        /\ save_log = "none"
        /\ <<metaFile, dataFile>> = files_at_call
        /\ \A s \in 1..Len(suit_state) : suit_state[s].tasks = <<>>

C3_Witness ==
    /\ pc = "done"
    /\ outcome = "failed"
    /\ ret = <<>>
    /\ metaFile.state = "ok"
    /\ dataFile.state = "ok"

\* the monitor tasks that have run
DoneTasks ==
    UNION {{<<s, k>> : k \in {j \in 1..Len(suit_state[s].tasks) :
                                suit_state[s].tasks[j].done}} :
           s \in 1..Len(suit_state)}

TaskAt(t) == suit_state[t[1]].tasks[t[2]]

WatchlistTags == {"[PROTOCOL]", "[TOKEN]", "[CONSENSUSLAYER]", "[MULTISIG]",
                  "[POOL]", "[L2]"}

\* the name has a second token and it is a contract tag of the monitor's
\* kind (in any letter case for a custom agent)
HasKnownTag(task_type, name) ==
    /\ Len(name) >= 2
    /\ IF task_type = "watchlist" THEN name[2] \in WatchlistTags
       ELSE Upper(name[2]) \in AgentTags \cup {"[TOKEN]"}

\* the code's decoder accepts the name
Decodes(task_type, name) ==
    IF task_type = "watchlist" THEN parse_watchlist_name(name).tag = "ok"
    ELSE parse_custom_agent_name(name).tag = "ok"

\* the fetch raised, the body has no name, or the name has no known tag
TaskFailed(task) ==
    \/ task.resp.status = "error"
    \/ task.resp.name = Absent
    \/ ~HasKnownTag(task.type, task.resp.name)

\* C4 as stated: a monitor task that failed contributes no row
C4_FailedTaskGivesNoRows ==
    \A t \in DoneTasks : TaskFailed(TaskAt(t)) => TaskAt(t).rows = <<>>

\* the distinct channel names of a detail body
Range(seq) == {seq[i] : i \in 1..Len(seq)}

ChannelNames(resp) ==
    IF resp.alertPolicies.present
      THEN UNION {Range(policy) : policy \in Range(resp.alertPolicies.policies)}
             \ {""}
      ELSE {}

\* how many rows of a table come from the monitor with this link
RowsOf(table, link) ==
    Cardinality({i \in 1..Len(table) : table[i].monitorLink = link})

LinkOf(task) ==
    <<IF task.type = "watchlist" THEN "watchlist" ELSE "custom-agents", task.id>>

Max(a, b) == IF a > b THEN a ELSE b

\* C5: a monitor whose suite and own name decode emits max(1, n) rows for
\* its n distinct channel names, one row per name, and for n = 0 one row
\* whose channel and client are "None"; the returned table holds them
C5_RowsPerMonitor ==
    \A t \in DoneTasks :
        LET task == TaskAt(t)
            names == ChannelNames(task.resp)
            n == Cardinality(names)
        IN (task.resp.status = "ok" /\ Decodes(task.type, GetName(task.resp.name))) =>
             /\ Len(task.rows) = Max(1, n)
             /\ n > 0 => {task.rows[i].monitorAlertChannel :
                            i \in 1..Len(task.rows)} = names
             /\ n = 0 => /\ task.rows[1].monitorAlertChannel = "None"
                         /\ task.rows[1].Client = "None"
             /\ (pc = "done" /\ outcome = "ingested" /\ task.resp.id # 0) =>
                  RowsOf(ret, LinkOf(task)) = Max(1, n)

C5_Witness ==
    /\ pc = "done"
    /\ outcome = "ingested"
    /\ \E t \in DoneTasks :
         /\ TaskAt(t).resp.status = "ok"
         /\ Cardinality(ChannelNames(TaskAt(t).resp)) = 2
         /\ Len(Flatten(TaskAt(t).resp.alertPolicies.policies)) > 2
         /\ RowsOf(ret, LinkOf(TaskAt(t))) = 2
    /\ \E t \in DoneTasks :
         /\ TaskAt(t).resp.status = "ok"
         /\ TaskAt(t).resp.id # 0
         /\ ChannelNames(TaskAt(t).resp) = {}
         /\ RowsOf(ret, LinkOf(TaskAt(t))) = 1

\* C6 as stated: a monitor whose fetched name has no known contract tag of
\* its kind as its second token contributes no row
C6_UnknownTagGivesNoRows ==
    \A t \in DoneTasks :
        (/\ TaskAt(t).resp.status = "ok"
         /\ TaskAt(t).resp.name # Absent
         /\ ~HasKnownTag(TaskAt(t).type, TaskAt(t).resp.name))
          => TaskAt(t).rows = <<>>

\* the rows of a table that name this suite
RowsOfSuit(table, name) == {i \in 1..Len(table) : table[i].fullSuiteName = name}

\* the requests for the monitors of a suite
RequestsOfSuit(suit) ==
    {<<"watchlists", id>> : id \in Range(suit.watchlists)}
      \cup {<<"custom-agents", id>> : id \in Range(suit.customAgents)}

\* C7: a suite whose first token is none of the four tags gives no row and
\* no request for any of its monitors is sent
C7_UnknownSuitSkipped ==
    \A s \in 1..Len(suits) :
        suits[s].name[1] \notin SuitTags =>
            /\ requests \cap RequestsOfSuit(suits[s]) = {}
            /\ suit_state[s].tasks = <<>>
            /\ suit_state[s].results = <<>>
            /\ RowsOfSuit(flattened_rows, suits[s].name) = {}
            /\ RowsOfSuit(ret, suits[s].name) = {}

C7_Witness ==
    /\ pc = "done"
    /\ outcome = "ingested"
    /\ ret # <<>>
    /\ \E s \in 1..Len(suits) :
         /\ suits[s].name[1] \notin SuitTags
         /\ suit_state[s].status = "collected"
         /\ suits[s].watchlists # <<>>

\* C8: is_cache_valid is true exactly when the metadata file holds a
\* timestamp less than the TTL old; once the TTL has passed since the last
\* save that wrote the cache, is_cache_valid is false and load_from_cache
\* gives None, until the next save
C8_ValidWithinTtl ==
    /\ is_cache_valid(metaFile, now) <=>
         (metaFile.state = "ok" /\ now - metaFile.timestamp < cache_duration)
    /\ metaFile.state = "ok" => metaFile.timestamp = last_save
    /\ (last_save = -1 \/ now - last_save >= cache_duration) =>
         /\ ~is_cache_valid(metaFile, now)
         /\ load_from_cache(metaFile, dataFile, now) = NoneResult

C8_Witness ==
    /\ metaFile.state = "ok"
    /\ dataFile.state = "ok"
    /\ now - last_save = cache_duration
    /\ ~is_cache_valid(metaFile, now)
    /\ load_from_cache(metaFile, dataFile, now) = NoneResult

\* C9: load_from_cache never raises; it returns a table only within the
\* TTL of the last save, and then the table of the data file; with the
\* metadata file or the data file missing or unreadable it returns None,
\* and a call that finds the cache so starts a run
C9_LoadIsTotal ==
    LET r == load_from_cache(metaFile, dataFile, now) IN
    /\ r # Raised
    /\ r # NoneResult =>
         /\ last_save # -1
         /\ now - last_save < cache_duration
         /\ dataFile.state = "ok"
         /\ r = Ok(DataFrame(dataFile.records))
    /\ (metaFile.state # "ok" \/ dataFile.state # "ok") => r = NoneResult
    /\ (pc = "done" /\ outcome = "cache") => ret # <<>>

C9_Witness ==
    /\ pc = "fetch_suits"
    /\ ~args.force_refresh
    /\ is_cache_valid(metaFile, now)
    /\ dataFile.state = "corrupt"
    /\ load_from_cache(metaFile, dataFile, now) = NoneResult

\* C10 as stated: once "Clear Cache" was pressed and until the next save,
\* is_cache_valid is false and load_from_cache gives None
C10_ClearedCacheIsInvalid ==
    cleared =>
        /\ ~is_cache_valid(metaFile, now)
        /\ load_from_cache(metaFile, dataFile, now) = NoneResult

\* C11: a load that found the cache valid read the metadata of a save m
\* and the data file as a save d left it, with d = m or d a later save; it
\* returns the whole table of save d or None, never a part, and with d = m
\* the whole table of the save whose timestamp it saw.  A save writes the
\* metadata only once the data file holds all its rows, and leaves the two
\* files as save_to_cache gives them.
C11_LoadSeesWholeSave ==
    /\ \A t \in DOMAIN threads :
         (threads[t].pc = "load_unlock" /\ threads[t].valid) =>
             LET m == threads[t].meta_seen
                 d == threads[t].data_seen
             IN /\ m >= 1
                /\ d >= m
                /\ threads[t].result \in {NoneResult, Ok(written_by.tables[d])}
                /\ d = m => threads[t].result = Ok(written_by.tables[m])
    /\ \A t \in DOMAIN threads :
         threads[t].pc \in {"save_meta_open", "save_meta_write"} =>
             /\ dataFile = DataOk(to_json(threads[t].df))
             /\ written_by.data = threads[t].id
    /\ \A t \in DOMAIN threads :
         threads[t].pc = "save_unlock" =>
             [meta |-> metaFile, data |-> dataFile]
               = save_to_cache(threads[t].df, threads[t].how, threads[t].before[1],
                               threads[t].before[2], threads[t].stamp)

C11_Witness ==
    /\ Len(written_by.tables) >= 2
    /\ written_by.tables[1] # written_by.tables[2]
    /\ \E t \in DOMAIN threads :
         /\ threads[t].pc = "load_unlock"
         /\ threads[t].meta_seen = 2
         /\ threads[t].result = Ok(written_by.tables[2])
         /\ \E u \in DOMAIN threads : threads[u].pc = "valid_check"

\* the step of a thread that reads or writes a cache file
AccessPcs ==
    {"save_data_open", "save_data_write", "save_meta_open", "save_meta_write",
     "load_check", "load_read", "valid_check"}

Accesses(t) == threads[t].pc \in AccessPcs /\ threads'[t] # threads[t]

\* where a thread stands inside the with block of a save or a load
MidPcs ==
    {"save_data_open", "save_data_write", "save_meta_open", "save_meta_write",
     "save_unlock", "load_check", "load_read", "load_unlock"}

\* C12 as stated: no thread reads or writes a cache file, the validity check
\* included, while another thread is in the middle of a save or a load (each
\* access being made by the thread that holds the cache lock)
C12_NoInterleavedAccess ==
    [][\A t \in DOMAIN threads :
         Accesses(t) => \A u \in DOMAIN threads \ {t} : threads[u].pc \notin MidPcs]_vars

\* the cache files are written by no step but the end of a run that saves
FilesChangeOnlyBySave ==
    (metaFile' # metaFile \/ dataFile' # dataFile) =>
        (pc = "batches" /\ pc' = "done" /\ save_log' # "none")

C14_BoundedFetches ==
    /\ Cardinality(Running) <= suit_workers
    /\ \A s \in 1..Len(suit_state) :
         /\ Cardinality(InFlight(s)) <= monitor_workers
         /\ InFlight(s) # {} => s \in Running
    /\ Cardinality(AllInFlight) <= suit_workers * monitor_workers

C14_Witness ==
    /\ Len(suits) > suit_workers
    /\ Cardinality(Running) = suit_workers
    /\ \E s \in 1..Len(suits) : suit_state[s].status = "submitted"
    /\ \E s \in Running :
         /\ Cardinality(InFlight(s)) = monitor_workers
         /\ \E k \in 1..Len(suit_state[s].tasks) :
              suit_state[s].tasks[k].resp.status = "pending"
    /\ Cardinality(AllInFlight) > monitor_workers

RECURSIVE SumRows(_)
\* how many rows the monitor tasks of the suites 1..s have given
SumRows(s) ==
    IF s = 0 THEN 0
    ELSE SumRows(s - 1) + Len(Flatten([k \in 1..Len(suit_state[s].tasks) |->
                                         suit_state[s].tasks[k].rows]))

\* C15: when the run has returned its table (and saved it), every suite of
\* the list has been collected, every monitor task of every suite has ended,
\* with rows or with a caught failure, no fetch is in flight, and the table
\* holds the rows of all the tasks
C15_DoneAfterAllTasks ==
    (pc = "done" /\ outcome = "ingested") =>
        /\ batch_i >= Len(suits)
        /\ \A s \in 1..Len(suits) :
             /\ suit_state[s].status = "collected"
             /\ \A k \in 1..Len(suit_state[s].tasks) : suit_state[s].tasks[k].done
        /\ AllInFlight = {}
        /\ Len(ret) = SumRows(Len(suits))
        /\ save_log = "ok" => dataFile = DataOk(to_json(ret))

C15_Witness ==
    /\ pc = "done"
    /\ outcome = "ingested"
    /\ save_log = "ok"
    /\ Len(suits) > batch_size
    /\ \E s \in 1..Len(suits) : suit_state[s].error
    /\ \E t \in DoneTasks : TaskAt(t).rows = <<>>
    /\ \E t \in DoneTasks : Len(TaskAt(t).rows) = 2

\* the statuses and errors after which another attempt may follow
Transient(result) == result \in {"429", "500", "502", "503", "504", "network"}

\* every attempt of the call but the last met a transient outcome
RetriedOnlyAfterTransient ==
    \A i \in 1..(Len(http.attempts) - 1) : Transient(http.attempts[i])

\* an attempt answered with a 4xx other than 429 is the last of its call and
\* the call returns its response
ClientErrorNotRetried ==
    \A i \in 1..Len(http.attempts) :
        http.attempts[i] = "404" => (i = Len(http.attempts) /\ http.state = "returned")

Owners ==
    {channels[i].dao : i \in 1..Len(channels)} \ {"", "None"}

\* the owner the directory records for a channel, or "None"
DirectoryOwner(channel) ==
    IF \E i \in 1..Len(channels) :
         channels[i].name = channel /\ channels[i].dao \in Owners
      THEN (CHOOSE e \in Range(channels) :
              e.name = channel /\ e.dao \in Owners).dao
      ELSE "None"

ChannelUniverse ==
    {channels[i].name : i \in 1..Len(channels)} \cup {"None", "chan-z"}

\* the rows of every monitor task that has run, and of the returned table
EmittedRows ==
    UNION {Range(TaskAt(t).rows) : t \in DoneTasks} \cup Range(ret)
      \cup Range(flattened_rows)

\* C17: the Client of every emitted row is the owner the directory records
\* for the row's channel, or "None"; it is never null; a channel whose entry
\* has the owner "None" or no owner, and a channel without entry, give "None"
C17_ClientIsOwnerOrNone ==
    /\ \A r \in EmittedRows :
         /\ r.Client = DirectoryOwner(r.monitorAlertChannel)
         /\ r.Client \in Owners \cup {"None"}
    /\ \A ch \in ChannelUniverse :
         /\ get_client_dao(ch) = DirectoryOwner(ch)
         /\ get_client_dao(ch) # ""
    /\ \A i \in 1..Len(channels) :
         channels[i].dao \in {"", "None"} => get_client_dao(channels[i].name) = "None"

C17_Witness ==
    /\ pc = "done"
    /\ outcome = "ingested"
    /\ \E r \in Range(ret) : r.monitorAlertChannel = "chan-a" /\ r.Client = "X"
    /\ \E r \in Range(ret) : r.monitorAlertChannel = "chan-b" /\ r.Client = "None"
    /\ \E r \in Range(ret) : r.monitorAlertChannel = "None" /\ r.Client = "None"

RECURSIVE ResolveClient(_)
\* the owner of the first channel of the list that the channel map holds,
\* "None" for an empty list and for a list without such a channel
ResolveClient(names) ==
    IF names = <<>> THEN "None"
    ELSE IF DirectoryOwner(Head(names)) # "None" THEN DirectoryOwner(Head(names))
    ELSE ResolveClient(Tail(names))

\* C18 as stated: a monitor is attributed to the client that the first-match
\* rule gives for its ordered list of channel names: every row of the
\* monitor carries that client
C18_FirstMatchClient ==
    \A t \in DoneTasks :
        \A i \in 1..Len(TaskAt(t).rows) :
            TaskAt(t).rows[i].Client
              = ResolveClient(extract_channels(TaskAt(t).resp.alertPolicies))

\* the channel names of a detail body in the order of the payload, each at
\* its first place only
EncounterOrder(resp) ==
    LET all == IF resp.alertPolicies.present
                 THEN Flatten(resp.alertPolicies.policies) ELSE <<>>
        first == {i \in 1..Len(all) :
                    all[i] # "" /\ \A j \in 1..(i - 1) : all[j] # all[i]}
        RECURSIVE Take(_)
        Take(i) == IF i > Len(all) THEN <<>>
                   ELSE (IF i \in first THEN <<all[i]>> ELSE <<>>) \o Take(i + 1)
    IN Take(1)

\* the rows of a table that come from the monitor with this link, in the
\* order of the table
RowsInTable(table, link) ==
    SelectSeq(table, LAMBDA r : r.monitorLink = link)

\* C19: the rows of a monitor follow the order in which its channel names
\* are met in the payload, each name kept at its first place: row i carries
\* name i, in the task's result and in the returned table; a body without
\* alert policies, or with an empty list of them, gives the empty channel
\* list and the one row of channel "None"
C19_RowsInEncounterOrder ==
    /\ \A t \in DoneTasks :
         LET task == TaskAt(t)
             names == EncounterOrder(task.resp)
         IN (task.resp.status = "ok" /\ task.rows # <<>>) =>
              /\ extract_channels(task.resp.alertPolicies) = names
              /\ names # <<>> =>
                   /\ Len(task.rows) = Len(names)
                   /\ \A i \in 1..Len(names) :
                        task.rows[i].monitorAlertChannel = names[i]
              /\ names = <<>> =>
                   /\ Len(task.rows) = 1
                   /\ task.rows[1].monitorAlertChannel = "None"
              /\ (pc = "done" /\ outcome = "ingested" /\ task.resp.id # 0) =>
                   RowsInTable(ret, LinkOf(task)) = task.rows
    /\ extract_channels(NoPolicies) = <<>>
    /\ extract_channels(Policies(<<>>)) = <<>>

C19_Witness ==
    /\ pc = "done"
    /\ outcome = "ingested"
    /\ \E t \in DoneTasks :
         LET task == TaskAt(t) IN
         /\ task.resp.status = "ok"
         /\ task.resp.alertPolicies.present
         /\ Flatten(task.resp.alertPolicies.policies) = <<"chan-c", "", "chan-b", "chan-c">>
         /\ Len(RowsInTable(ret, LinkOf(task))) = 2
         /\ RowsInTable(ret, LinkOf(task))[1].monitorAlertChannel = "chan-c"
         /\ RowsInTable(ret, LinkOf(task))[2].monitorAlertChannel = "chan-b"
    /\ \E t \in DoneTasks :
         /\ TaskAt(t).resp.status = "ok"
         /\ ~TaskAt(t).resp.alertPolicies.present
         /\ Len(RowsInTable(ret, LinkOf(TaskAt(t)))) = 1

\* C20 as stated: no decoder raises, whatever the name: for the name of
\* every suite of the list and the name of every monitor fetched, the
\* decoder of its kind returns a tuple or None
C20_DecodersNeverRaise ==
    /\ \A s \in 1..Len(suits) : parse_suit_name(suits[s].name) # Raised
    /\ \A t \in DoneTasks :
         LET task == TaskAt(t)
             name == GetName(task.resp.name)
         IN task.resp.status = "ok" =>
              IF task.type = "watchlist"
                THEN parse_watchlist_name(name) # Raised
                ELSE /\ parse_custom_agent_name(name) # Raised
                     /\ getHN_parse_custom_agent_name(name) # Raised

\* the tokens of parts from the i-th on (i counted from 1), joined by
\* single spaces: the empty string when there is none
JoinedFrom(parts, i) ==
    IF Len(parts) >= i THEN SubSeq(parts, i, Len(parts)) ELSE EmptyStr

\* the decoder named d has returned
Returned(d) == decode.state = "returned" /\ decode.decoder = d

\* C21: parse_suit_name gives no match for every name whose first token is
\* not [TOKEN], [POOL], [VAULT] or [BRIDGE]; for a [TOKEN] name that has its
\* four leading tokens it gives blockchain = 2nd token, address = 3rd,
\* symbol = 4th, label = the rest joined and protocol = ""; for a name of one
\* of the other three tags it gives blockchain = 2nd, protocol = 3rd,
\* address = 4th, label = the rest joined and symbol = ""
C21_SuitNameLayout ==
    Returned("parse_suit_name") =>
        LET parts == decode.name
            tag == parts[1]
        IN
        /\ tag \notin {"[TOKEN]", "[POOL]", "[VAULT]", "[BRIDGE]"}
              => decode.result = NoneResult
        /\ (tag = "[TOKEN]" /\ Len(parts) >= 4)
              => decode.result = Ok([contract_type |-> tag, blockchain |-> parts[2],
                                     address |-> parts[3], symbol |-> parts[4],
                                     label |-> JoinedFrom(parts, 5),
                                     protocol |-> ""])
        /\ (tag \in {"[POOL]", "[VAULT]", "[BRIDGE]"} /\ Len(parts) >= 4)
              => decode.result = Ok([contract_type |-> tag, blockchain |-> parts[2],
                                     protocol |-> parts[3], address |-> parts[4],
                                     label |-> JoinedFrom(parts, 5),
                                     symbol |-> ""])

\* a [TOKEN] suite name with a label of two words has been decoded, its
\* symbol taken from the fourth token
C21_Witness ==
    /\ Returned("parse_suit_name")
    /\ decode.name[1] = "[TOKEN]"
    /\ Len(decode.name) = 6
    /\ decode.result.tag = "ok"
    /\ decode.result.val.symbol = "0xA"
    /\ decode.result.val.label = <<"SYM", "my">>

\* the name with its contract tag, the second token, in upper case
WithUpperTag(parts) ==
    IF Len(parts) < 2 THEN parts ELSE [parts EXCEPT ![2] = Upper(parts[2])]

\* C22 as stated: parse_custom_agent_name gives for a name with its tag in
\* any letter case the result it gives for the same name with the tag in
\* upper case
C22_TagCaseInsensitive ==
    /\ Returned("parse_custom_agent_name")
          => decode.result = parse_custom_agent_name(WithUpperTag(decode.name))
    /\ Returned("getHN_parse_custom_agent_name")
          => decode.result = getHN_parse_custom_agent_name(WithUpperTag(decode.name))

\* the description getHN.py gives an agent without ruleString (line 243):
\* a warning sign, then "Incomplete due to missing ruleString"
MissingRuleWarning == <<"(warning sign)", "Incomplete", "due", "to", "missing",
                        "ruleString">>

\* C23 as stated: a custom agent whose payload holds no rule / ruleString
\* still emits its rows, one per channel or the one row of channel "None",
\* and their description is the warning placeholder
C23_MissingRuleGivesWarning ==
    \A t \in DoneTasks :
        LET task == TaskAt(t)
            n == Cardinality(ChannelNames(task.resp))
        IN (/\ task.type = "agent"
            /\ task.resp.status = "ok"
            /\ ~task.resp.rule.present
            /\ Decodes(task.type, GetName(task.resp.name))) =>
             /\ Len(task.rows) = Max(1, n)
             /\ \A i \in 1..Len(task.rows) :
                  task.rows[i].monitorDescription = MissingRuleWarning

\* the suite list has arrived and the run has not failed
GotSuits == pc \in {"batches", "in_batch"} \/ (pc = "done" /\ outcome = "ingested")

\* C24: a run with limit_suits = k > 0 processes exactly the first k suites
\* of the suite list (all of them if there are fewer), a run with no limit
\* (None or 0) processes them all; each monitor task gives the rows an
\* unlimited run gives for the same suite of the list and the same answer,
\* and the table returned holds the rows of the processed suites only
C24_LimitTakesPrefix ==
    GotSuits =>
        LET k == args.limit_suits
            all == remote.results
        IN
        /\ k > 0 => suits = [s \in 1..Min(k, Len(all)) |-> all[s]]
        /\ k = 0 => suits = all
        /\ Len(suit_state) = Len(suits)
        /\ \A t \in DoneTasks :
             LET task == TaskAt(t)
                 suit == all[t[1]]
             IN /\ task.id \in Range(suit.watchlists) \cup Range(suit.customAgents)
                /\ task.rows = fetch_monitor_data(task.type, task.resp, suit,
                                                  parse_suit_name(suit.name).val)
        /\ pc = "done" =>
             /\ \A s \in 1..Len(suits) : suit_state[s].status = "collected"
             /\ Len(ret) = SumRows(Len(suits))

\* a run limited to one suite of a list of two different suites has
\* returned rows
C24_Witness ==
    /\ pc = "done"
    /\ outcome = "ingested"
    /\ args.limit_suits = 1
    /\ Len(remote.results) = 2
    /\ remote.results[1] # remote.results[2]
    /\ Len(suits) = 1
    /\ ret # <<>>

\* the suites that have been handed to a pool
Submitted == {s \in 1..Len(suit_state) : suit_state[s].status # "waiting"}

\* every suite task and every monitor task of the suites 1..n is over
Completed(n) ==
    \A s \in 1..n :
        /\ suit_state[s].status = "collected"
        /\ InFlight(s) = {}
        /\ \A k \in 1..Len(suit_state[s].tasks) : suit_state[s].tasks[k].done

\* C25: the suites are handed to the pool in consecutive batches of 5 in the
\* order of the list; no suite of a batch is submitted before every suite
\* task and monitor task of the batches before it is over; and the loop
\* pauses after every batch but the last
C25_BatchesInOrder ==
    /\ [](GotSuits \/ pc = "pause" =>
            /\ batch_i % 5 = 0
            /\ Completed(Min(batch_i, Len(suits)))
            /\ Submitted = IF pc = "in_batch"
                             THEN 1..Min(batch_i + 5, Len(suits))
                             ELSE 1..Min(batch_i, Len(suits))
            /\ pc = "pause" => batch_i < Len(suits))
    /\ [][(pc = "in_batch" /\ pc' # "in_batch") =>
            /\ batch_i' = batch_i + 5
            /\ Completed(Min(batch_i', Len(suits)))
            /\ pc' = IF batch_i' < Len(suits) THEN "pause" ELSE "batches"]_vars
    /\ [][(pc # "in_batch" /\ pc' = "in_batch" /\ batch_i > 0) =>
            pc # "pause"]_vars

\* the second batch is under way: a suite of it runs while the five suites
\* of the first batch are over
C25_Witness ==
    /\ pc = "in_batch"
    /\ batch_i = 5
    /\ Len(suits) > 5
    /\ \E s \in 6..Len(suits) : suit_state[s].status # "waiting"
    /\ Completed(5)
    /\ flattened_rows # <<>>

\* how many times the row r stands in the list rows
Count(rows, r) == Cardinality({i \in 1..Len(rows) : rows[i] = r})

\* the two lists hold the same rows, each as many times
SameRows(a, b) ==
    /\ Len(a) = Len(b)
    /\ \A r \in Range(a) \cup Range(b) : Count(a, r) = Count(b, r)

\* the rows the monitor tasks of the suite s have returned
TaskRows(s) ==
    Flatten([k \in 1..Len(suit_state[s].tasks) |-> suit_state[s].tasks[k].rows])

\* the rows returned by the tasks of the suites that have been collected
CollectedRows ==
    Flatten([s \in 1..Len(suit_state) |->
               IF suit_state[s].status = "collected" THEN TaskRows(s) ELSE <<>>])

\* C26: in every order in which the workers end, a suite's result holds
\* each row returned by each of its monitor tasks once and nothing else,
\* each row names the suite of its task, the collected rows are the rows of
\* the collected suites, each once, and so is the table the run returns
C26_EachRowOnce ==
    GotSuits \/ pc = "pause" =>
        /\ \A s \in 1..Len(suit_state) :
             /\ SameRows(suit_state[s].results, TaskRows(s))
             /\ \A i \in 1..Len(suit_state[s].results) :
                  suit_state[s].results[i].fullSuiteName = suits[s].name
        /\ SameRows(flattened_rows, CollectedRows)
        /\ pc = "done" =>
             /\ \A s \in 1..Len(suit_state) : suit_state[s].status = "collected"
             /\ ret = flattened_rows

\* the run has returned a table in which the rows of the second suite of
\* the list stand before the rows of the first, whose tasks ended later,
\* and a task of the first suite that was sent later ended earlier
C26_Witness ==
    /\ pc = "done"
    /\ outcome = "ingested"
    /\ Len(ret) > 3
    /\ ret[1].fullSuiteName = suits[2].name
    /\ ret[Len(ret)].fullSuiteName = suits[1].name
    /\ suit_state[1].results[1].monitorLink # TaskRows(1)[1].monitorLink

\* where a thread stands while it holds the lock
HoldPcs == {"save_data_open", "save_data_write", "save_meta_open",
            "save_meta_write", "save_unlock", "load_check", "load_read",
            "load_unlock"}

C28_CacheIgnoresLimit ==
    /\ []((pc = "done" /\ outcome = "ingested" /\ ret # <<>> /\ save_log = "ok") =>
            /\ dataFile = DataOk(to_json(ret))
            /\ metaFile = [state |-> "ok", timestamp |-> last_save,
                           row_count |-> Len(ret), cache_version |-> "1.0"])
    /\ [][(IsCall /\ ~args'.force_refresh /\ pc = "done" /\ outcome = "ingested"
            /\ ret # <<>> /\ save_log = "ok" /\ now - last_save < cache_duration) =>
            /\ outcome' = "cache"
            /\ ret' = ret]_vars
    /\ [][(IsCall /\ ~args'.force_refresh /\ is_cache_valid(metaFile, now)
            /\ dataFile.state = "ok") =>
            /\ outcome' = "cache"
            /\ ret' = DataFrame(dataFile.records)
            /\ requests' = {}
            /\ metaFile' = metaFile
            /\ dataFile' = dataFile]_vars

\* a call without limit has been answered from the cache with a table that
\* holds rows of the first suite of the list only, though the list holds a
\* second suite, of another name, with a known tag and a monitor
C28_Witness ==
    /\ pc = "done"
    /\ outcome = "cache"
    /\ args.limit_suits = 0
    /\ ret # <<>>
    /\ Len(remote.results) = 2
    /\ remote.results[1].name # remote.results[2].name
    /\ parse_suit_name(remote.results[2].name).tag = "ok"
    /\ remote.results[2].watchlists # <<>>
    /\ \A i \in 1..Len(ret) : ret[i].fullSuiteName = remote.results[1].name

====
